---- MODULE Spec2Model ----
(***************************************************************************)
(* A model of the qbittorrent-operator: the session pool (ClientPool), the *)
(* Torrent, TorrentClientConfiguration and TorrentServer reconcilers, the  *)
(* declarative store they read and write, and the remote engine.           *)
(*                                                                         *)
(* Strings that the code concatenates or searches are sequences of         *)
(* one-character strings; a message built with fmt.Errorf / fmt.Sprintf is *)
(* the sequence of its literal pieces and its formatted arguments.         *)
(*                                                                         *)
(* Time is integral (Go's time is a count of nanoseconds) and kept         *)
(* relative: a timestamp is stored as its age now - t, saturated just      *)
(* above the largest value the code compares it with.                      *)
(*                                                                         *)
(* PoolSpec is the pool alone, with its callers interleaved at the         *)
(* granularity of its lock sections and its timers running.  Spec is the   *)
(* three reconcilers over one namespace, each Reconcile one step (a        *)
(* controller runs one worker), with every store write and remote call    *)
(* able to fail, and the read of the generated secret as well.  LiveSpec   *)
(* is the Torrent and TorrentClientConfiguration reconcilers, fairly       *)
(* scheduled, with engines that may go down and stay down.  ConfigSpec is  *)
(* the init container of the pod (configinit.Run) on the config volume,    *)
(* and HashSpec is GetTorrentHash applied to a set of magnet links.        *)
(* KeySpec is the pool called with credentials that may hold the separator *)
(* of its key, and TimerSpec the pool left to its timers, the runtime      *)
(* running each callback that has come due.                                *)
(***************************************************************************)
EXTENDS Integers, Sequences, FiniteSets, TLC

\* ------------------------------------------------------------------ bounds

\* Session handles (qbittorrent.Client objects) that may be created.
MaxHandles == 2

\* Timers of scheduleRemove that are armed or running at the same time.
MaxTimers == 2

\* The pool's idle TTL, in clock units (the pool of TestCleanup).
TTL == 1

\* ------------------------------------------------------------ pool: values

\* The goroutines that call GetOrCreate: the one worker of each controller
\* that holds the pool (SetupWithManager sets no MaxConcurrentReconciles).
Callers == {"TorrentReconciler", "TorrentClientConfigurationReconciler"}
Handles == 1..MaxHandles
NoHandle == 0

URLs == {<<"u">>}
Usernames == {<<"a">>}
Passwords == {<<"p">>, <<"q">>}

\* Saturating successor of an age.
Older(age) == IF age > TTL THEN age ELSE age + 1

\* sha256.Sum256 rendered with %x: an injection of the byte string hashed.
Sha256Hex(bytes) == <<"sha256", bytes>>

hashCredentials(url, username, password) ==
    Sha256Hex(url \o <<"|">> \o username \o <<"|">> \o password)

VARIABLES
    clients,      \* ClientPool.clients: credHash -> handle of the poolEntry
    entries,      \* the poolEntry objects: handle -> [credHash, idle]
    timers,       \* the time.AfterFunc callbacks of scheduleRemove in flight
    call,         \* each caller's position in GetOrCreate and its locals
    last          \* the operation that has just completed, and what it found

poolVars == <<clients, entries, timers, call, last>>

VARIABLES
    torrent,      \* the Torrent object as the store holds it
    tccs,         \* the TorrentClientConfiguration objects, by name
    secrets,      \* the Secret objects, by name
    engine,       \* the torrent each remote engine holds, by endpoint
    server,       \* the TorrentServer object as the store holds it
    owned,        \* the objects with a controller reference to the TorrentServer
    objects,      \* the PVCs, the Deployment and the Service, by kind and name
    reachable     \* whether the remote engines answer at all

storeVars == <<torrent, tccs, secrets, engine, server, owned, objects,
               reachable>>
vars == <<clients, entries, timers, call, last,
          torrent, tccs, secrets, engine, server, owned, objects, reachable>>

IdleCall ==
    [pc |-> "idle", credHash |-> <<>>, username |-> <<>>, password |-> <<>>,
     url |-> <<>>, entry |-> NoHandle, client |-> NoHandle,
     present |-> FALSE, logins |-> 0]

Nothing == [op |-> "none"]

\* ------------------------------------------------------- pool: operations

\* A map with key k bound to v.
Put(map, k, v) == [x \in DOMAIN map \cup {k} |-> IF x = k THEN v ELSE map[x]]

\* delete(map, k): a no-op when k is absent.
Delete(map, k) == [x \in DOMAIN map \ {k} |-> map[x]]

\* The poolEntry objects still referenced, by the map, by a caller's local
\* `entry` or by a timer callback's local `entry`; the rest is collected.
Reachable(cl, ca, tm) ==
    {cl[k] : k \in DOMAIN cl}
        \cup {ca[c].entry : c \in Callers}
        \cup {t.entry : t \in tm}

Collect(en, cl, ca, tm) ==
    [h \in DOMAIN en \cap Reachable(cl, ca, tm) |-> en[h]]

\* NewClient(url): a client object no one holds yet.
FreeHandles(en, ca) ==
    Handles \ (DOMAIN en \cup {ca[c].client : c \in Callers})

NewClient(en, ca) ==
    CHOOSE h \in FreeHandles(en, ca) : \A g \in FreeHandles(en, ca) : h <= g

PoolHitNever(cl, en, credHash) ==
    /\ credHash \in DOMAIN cl
    /\ en[cl[credHash]].credHash # credHash

\* The probe of GetOrCreate: `exists && entry.credHash == credHash`.
PoolHit(cl, en, credHash) ==
    /\ credHash \in DOMAIN cl
    /\ en[cl[credHash]].credHash = credHash

\* entry.lastUsed = time.Now()
Touch(en, h) == [en EXCEPT ![h].idle = 0]

\* &poolEntry{client, credHash, lastUsed: time.Now()}
NewEntry(credHash) == [credHash |-> credHash, idle |-> 0]

\* A GetOrCreate that arms no timer.
scheduleRemoveNever(tm, credHash) == tm

\* go scheduleRemove(p, credHash): time.AfterFunc(pool.ttl, ...)
scheduleRemove(tm, credHash) ==
    tm \cup {[credHash |-> credHash, left |-> TTL, pc |-> "armed", entry |-> NoHandle]}

\* The error GetOrCreate returns when Login fails.
LoginError(url, username, password) ==
    <<"failed to login for credentials[", username, ", ", password,
      "] url[", url, "]: ", "login failed">>

ExpiredAtTTL(entry) == entry.idle >= TTL

\* `now.Sub(entry.lastUsed) > p.ttl`
Expired(entry) == entry.idle > TTL

\* What a completed GetOrCreate of caller c returned.
Returned(c, ret, err) ==
    [op |-> "GetOrCreate", caller |-> c, credHash |-> call[c].credHash,
     url |-> call[c].url, username |-> call[c].username,
     password |-> call[c].password,
     present |-> call[c].present, entry |-> call[c].entry,
     logins |-> call[c].logins, ret |-> ret, err |-> err,
     before |-> clients, lastUsed |-> TTL + 1]

\* GetOrCreate up to the release of the read lock.
GetOrCreateProbe(c, url, username, password) ==
    /\ call[c].pc = "idle"
    /\ LET credHash == hashCredentials(url, username, password)
           hit == PoolHit(clients, entries, credHash)
       IN call' = [call EXCEPT ![c] =
                [IdleCall EXCEPT
                    !.pc = IF hit THEN "hit" ELSE "miss",
                    !.credHash = credHash, !.url = url,
                    !.username = username, !.password = password,
                    !.entry = IF credHash \in DOMAIN clients
                              THEN clients[credHash] ELSE NoHandle,
                    !.present = credHash \in DOMAIN clients]]
    /\ last' = Nothing
    /\ UNCHANGED <<clients, entries, timers>>
    /\ UNCHANGED storeVars

\* The hit path: bump lastUsed under the write lock, arm a timer, return the
\* cached client.
GetOrCreateHit(c) ==
    /\ call[c].pc = "hit"
    /\ Cardinality(timers) < MaxTimers
    /\ call' = [call EXCEPT ![c] = IdleCall]
    /\ timers' = scheduleRemove(timers, call[c].credHash)
    /\ entries' = Collect(Touch(entries, call[c].entry), clients, call', timers')
    /\ last' = [Returned(c, call[c].entry, <<>>)
                EXCEPT !.lastUsed = Touch(entries, call[c].entry)[call[c].entry].idle]
    /\ UNCHANGED clients
    /\ UNCHANGED storeVars

\* The client is stored in the map before Login is known to have succeeded.
GetOrCreateLoginCached(c, ok) ==
    /\ call[c].pc = "miss"
    /\ FreeHandles(entries, call) # {}
    /\ LET client == NewClient(entries, call)
       IN /\ clients' = Put(clients, call[c].credHash, client)
          /\ IF ok
             THEN /\ call' = [call EXCEPT ![c].pc = "insert", ![c].client = client,
                                          ![c].logins = call[c].logins + 1,
                                          ![c].entry = NoHandle]
                  /\ last' = Nothing
             ELSE /\ call' = [call EXCEPT ![c] = IdleCall]
                  /\ last' = [Returned(c, NoHandle,
                                  LoginError(call[c].url, call[c].username,
                                             call[c].password))
                              EXCEPT !.logins = call[c].logins + 1]
          /\ entries' = Collect(Put(entries, client, NewEntry(call[c].credHash)),
                                clients', call', timers)
    /\ UNCHANGED timers
    /\ UNCHANGED storeVars

\* The miss path: NewClient and Login, outside any lock.
GetOrCreateLogin(c, ok) ==
    /\ call[c].pc = "miss"
    /\ IF ok
       THEN /\ FreeHandles(entries, call) # {}
            /\ call' = [call EXCEPT ![c].pc = "insert",
                                    ![c].client = NewClient(entries, call),
                                    ![c].logins = call[c].logins + 1,
                                    ![c].entry = NoHandle]
            /\ last' = Nothing
       ELSE /\ call' = [call EXCEPT ![c] = IdleCall]
            /\ last' = [Returned(c, NoHandle,
                            LoginError(call[c].url, call[c].username, call[c].password))
                        EXCEPT !.logins = call[c].logins + 1]
    /\ entries' = Collect(entries, clients, call', timers)
    /\ UNCHANGED <<clients, timers>>
    /\ UNCHANGED storeVars

\* An insert that keeps the entry another caller has stored meanwhile and
\* returns its client.
GetOrCreateInsertFirstWins(c) ==
    /\ call[c].pc = "insert"
    /\ Cardinality(timers) < MaxTimers
    /\ LET kept == IF call[c].credHash \in DOMAIN clients
                   THEN clients[call[c].credHash] ELSE call[c].client
       IN /\ clients' = Put(clients, call[c].credHash, kept)
          /\ call' = [call EXCEPT ![c] = IdleCall]
          /\ timers' = scheduleRemove(timers, call[c].credHash)
          /\ entries' = Collect(IF kept = call[c].client
                                THEN Put(entries, kept, NewEntry(call[c].credHash))
                                ELSE Touch(entries, kept),
                                clients', call', timers')
          /\ last' = [Returned(c, kept, <<>>) EXCEPT !.lastUsed = 0]
    /\ UNCHANGED storeVars

\* The miss path after a successful Login: insert under the write lock, arm a
\* timer, return the new client.
GetOrCreateInsert(c) ==
    /\ call[c].pc = "insert"
    /\ Cardinality(timers) < MaxTimers
    /\ clients' = Put(clients, call[c].credHash, call[c].client)
    /\ call' = [call EXCEPT ![c] = IdleCall]
    /\ timers' = scheduleRemove(timers, call[c].credHash)
    /\ entries' = Collect(Put(entries, call[c].client, NewEntry(call[c].credHash)),
                          clients', call', timers')
    /\ last' = [Returned(c, call[c].client, <<>>) EXCEPT !.lastUsed = 0]
    /\ UNCHANGED storeVars

\* Cleanup: one sweep under the write lock.
Swept(cl, en) == [k \in {x \in DOMAIN cl : ~Expired(en[cl[x]])} |-> cl[k]]

Cleanup ==
    /\ last' = [op |-> "Cleanup", clients |-> clients, entries |-> entries]
    /\ clients' = Swept(clients, entries)
    /\ entries' = Collect(entries, clients', call, timers)
    /\ UNCHANGED <<timers, call>>
    /\ UNCHANGED storeVars

\* The timer callback of scheduleRemove, up to the release of the read lock.
TimerFire(t) ==
    /\ t.pc = "armed"
    /\ t.left = 0
    /\ timers' = IF t.credHash \in DOMAIN clients
                 THEN (timers \ {t}) \cup
                      {[t EXCEPT !.pc = "probed", !.entry = clients[t.credHash]]}
                 ELSE timers \ {t}
    /\ last' = Nothing
    /\ UNCHANGED <<clients, entries, call>>
    /\ UNCHANGED storeVars

\* `if time.Since(entry.lastUsed) > pool.ttl`
TimerCheck(t) ==
    /\ t.pc = "probed"
    /\ timers' = IF Expired(entries[t.entry])
                 THEN (timers \ {t}) \cup {[t EXCEPT !.pc = "remove", !.entry = NoHandle]}
                 ELSE timers \ {t}
    /\ entries' = Collect(entries, clients, call, timers')
    /\ last' = Nothing
    /\ UNCHANGED <<clients, call>>
    /\ UNCHANGED storeVars

\* pool.Remove(credHash), called by the timer callback.
Remove(cl, credHash) == Delete(cl, credHash)

TimerRemove(t) ==
    /\ t.pc = "remove"
    /\ clients' = Remove(clients, t.credHash)
    /\ timers' = timers \ {t}
    /\ entries' = Collect(entries, clients', call, timers')
    /\ last' = [op |-> "Remove", credHash |-> t.credHash,
                present |-> t.credHash \in DOMAIN clients,
                idle |-> IF t.credHash \in DOMAIN clients
                         THEN entries[clients[t.credHash]].idle
                         ELSE TTL + 1]
    /\ UNCHANGED call
    /\ UNCHANGED storeVars

\* One clock unit passes.
PoolTick ==
    /\ entries' = [h \in DOMAIN entries |->
                     [entries[h] EXCEPT !.idle = Older(entries[h].idle)]]
    /\ timers' = {[t EXCEPT !.left = IF t.left > 0 THEN t.left - 1 ELSE 0] : t \in timers}
    /\ last' = Nothing
    /\ UNCHANGED <<clients, call>>
    /\ UNCHANGED storeVars

\* GetOrCreate as one call made by a reconciler that no other caller
\* interleaves with: probe, then the hit path or the miss path.
GetOrCreate(cl, en, tm, url, username, password, loginOk) ==
    LET credHash == hashCredentials(url, username, password)
    IN IF PoolHit(cl, en, credHash)
       THEN [clients |-> cl, entries |-> Touch(en, cl[credHash]),
             timers |-> scheduleRemove(tm, credHash),
             client |-> cl[credHash], err |-> <<>>, logins |-> 0]
       ELSE IF loginOk
       THEN LET client == NewClient(en, call)
            IN [clients |-> Put(cl, credHash, client),
                entries |-> Put(en, client, NewEntry(credHash)),
                timers |-> scheduleRemove(tm, credHash),
                client |-> client, err |-> <<>>, logins |-> 1]
       ELSE [clients |-> cl, entries |-> en, timers |-> tm,
             client |-> NoHandle,
             err |-> LoginError(url, username, password), logins |-> 1]

\* ---------------------------------------------------------- store: values

\* TorrentClientConfiguration objects that may exist in the namespace.
MaxConfigs == 2

ConfigNames == 1..MaxConfigs
None == 0
NoObject == [exists |-> FALSE]

\* The secret the TorrentClientConfigurations refer to.
SecretNames == {"creds", "server-credentials"}

\* The credentials the remote engine accepts.
EngineUsername == <<"a">>
EnginePassword == <<"p">>

MagnetWithHash == <<"b", "t", "i", "h", ":", "h", "&", "d">>
MagnetWithoutHash == <<"x">>
Magnets == {MagnetWithHash, MagnetWithoutHash}

EmptyTorrentStatus ==
    [hash |-> <<>>, name |-> <<>>, state |-> <<>>, totalSize |-> 0,
     contentPath |-> <<>>, addedOn |-> 0, timeActive |-> 0, amountLeft |-> 0,
     clientConfigurationName |-> None, conditions |-> <<>>]

NewTorrent(magnetURI, clientConfigRef) ==
    [exists |-> TRUE, deleting |-> FALSE, finalizer |-> FALSE,
     magnetURI |-> magnetURI, clientConfigRef |-> clientConfigRef,
     status |-> EmptyTorrentStatus]

NewTCC(url, secretName) ==
    [exists |-> TRUE, url |-> url, credentialsSecret |-> secretName,
     connected |-> FALSE, checked |-> FALSE, conditions |-> <<>>]

SecretWith(data) == [exists |-> TRUE, data |-> data]

\* The secret with the credentials the user's engine accepts.
GoodSecret ==
    SecretWith([k \in {"username", "password"} |->
                   IF k = "username" THEN EngineUsername ELSE EnginePassword])

\* The secrets a user may have created: none, one without a password key, one
\* with the credentials the engine accepts, one with a wrong password.
UserSecrets ==
    {NoObject,
     SecretWith([k \in {"username"} |-> EngineUsername]),
     GoodSecret,
     SecretWith([k \in {"username", "password"} |->
                    IF k = "username" THEN EngineUsername ELSE <<"q">>])}

\* --------------------------------------------------------- status conditions

TypeAvailable == "Available"
TypeDegraded == "Degraded"

Condition(type, reason, message) ==
    [type |-> type, status |-> "True", reason |-> reason, message |-> message]

\* meta.FindStatusCondition: the first condition of the type, or none.
HasCondition(conditions, type) ==
    \E i \in 1..Len(conditions) : conditions[i].type = type

FindStatusCondition(conditions, type) ==
    conditions[CHOOSE i \in 1..Len(conditions) :
                  /\ conditions[i].type = type
                  /\ \A j \in 1..(i - 1) : conditions[j].type # type]

\* meta.SetStatusCondition: overwrite the condition of the same type in
\* place, or append.  (LastTransitionTime is left out of the model.)
SetStatusCondition(conditions, new) ==
    IF HasCondition(conditions, new.type)
    THEN LET first == CHOOSE i \in 1..Len(conditions) :
                          /\ conditions[i].type = new.type
                          /\ \A j \in 1..(i - 1) : conditions[j].type # new.type
         IN [conditions EXCEPT ![first] = new]
    ELSE Append(conditions, new)

\* meta.RemoveStatusCondition: drop every condition of the type.
RemoveStatusCondition(conditions, type) ==
    SelectSeq(conditions, LAMBDA c : c.type # type)

\* A setter that leaves the condition of the other type in the list.
KeepBothConditions(conditions, reason, message) ==
    SetStatusCondition(conditions, Condition(TypeDegraded, reason, message))

\* setDegradedCondition, the same in the three reconcilers.
setDegradedCondition(conditions, reason, message) ==
    RemoveStatusCondition(
        SetStatusCondition(conditions, Condition(TypeDegraded, reason, message)),
        TypeAvailable)

\* setAvailableCondition, the same in the three reconcilers.
setAvailableCondition(conditions, reason, message) ==
    RemoveStatusCondition(
        SetStatusCondition(conditions, Condition(TypeAvailable, reason, message)),
        TypeDegraded)

\* strings.Contains on a message: one of its pieces is the word.
Contains(message, word) == \E i \in 1..Len(message) : message[i] = word

\* ----------------------------------------------------------- remote engine

\* The endpoint of the engine the user runs, and of the one a TorrentServer
\* deploys (fmt.Sprintf("http://%s.%s.svc.cluster.local:%d", ...)).
ExternalURL == <<"u">>
ServiceURL == <<"http://", "server", ".", "ns", ".svc.cluster.local:", "8080">>
EngineURLs == {ExternalURL, ServiceURL}

GeneratedUsername == <<"a", "d", "m", "i", "n">>
GeneratedPassword == <<"g">>

\* generateRandomPassword: what a later draw may return, the first password
\* again or another one.
GeneratedPasswords == {GeneratedPassword, <<"r">>}

\* The credentials an engine accepts at its login endpoint.
Accepts(url, username, password) ==
    \/ url = ExternalURL /\ username = EngineUsername /\ password = EnginePassword
    \/ url = ServiceURL /\ username = GeneratedUsername
                        /\ password = GeneratedPassword

\* What the engine reports for a torrent it holds (TorrentInfo).
TorrentInfo(hash, state, amountLeft) ==
    [exists |-> TRUE, hash |-> hash, name |-> <<"n">>, state |-> state,
     totalSize |-> 1, contentPath |-> <<"/", "d">>, addedOn |-> 1,
     timeActive |-> 1, amountLeft |-> amountLeft]

\* ------------------------------------------------------------ GetTorrentHash

\* strings.Index: the 0-based position of the first occurrence, or -1.
Index(s, substr) ==
    LET at == {i \in 1..(Len(s) - Len(substr) + 1) :
                  SubSeq(s, i, i + Len(substr) - 1) = substr}
    IN IF at = {} THEN -1
       ELSE (CHOOSE i \in at : \A j \in at : i <= j) - 1

Btih == <<"b", "t", "i", "h", ":">>

\* A GetTorrentHash that takes a link without "btih:" as the hash itself.
GetTorrentHashWhole(magnetURI) ==
    [hash |-> magnetURI, err |-> <<>>]

\* A GetTorrentHash that takes the hash to run to the end of the link.
GetTorrentHashToEnd(magnetURI) ==
    LET btihIndex == Index(magnetURI, Btih)
        hashStart == btihIndex + Len(Btih)
    IN IF btihIndex = -1
       THEN [hash |-> <<>>, err |-> <<"'btih:' not found">>]
       ELSE IF hashStart >= Len(magnetURI)
       THEN [hash |-> <<>>, err |-> <<"no hash after 'btih:'">>]
       ELSE [hash |-> SubSeq(magnetURI, hashStart + 1, Len(magnetURI)),
             err |-> <<>>]

GetTorrentHash(magnetURI) ==
    LET btihIndex == Index(magnetURI, Btih)
        hashStart == btihIndex + Len(Btih)
        rest == SubSeq(magnetURI, hashStart + 1, Len(magnetURI))
        hashEnd == Index(rest, <<"&">>)
    IN IF btihIndex = -1
       THEN [hash |-> <<>>, err |-> <<"'btih:' not found">>]
       ELSE IF hashStart >= Len(magnetURI)
       THEN [hash |-> <<>>, err |-> <<"no hash after 'btih:'">>]
       ELSE IF hashEnd = -1
       THEN [hash |-> rest, err |-> <<>>]
       ELSE [hash |-> SubSeq(rest, 1, hashEnd), err |-> <<>>]

\* --------------------------------------------------------- store operations

\* map lookup followed by string(): the value, or "" for a missing key.
Lookup(data, key) == IF key \in DOMAIN data THEN data[key] ELSE <<>>

\* r.Status().Update: when the write succeeds the stored object takes the
\* status of the object passed, and nothing else of it.
StatusUpdate(stored, obj, ok) ==
    IF ok THEN [stored EXCEPT !.status = obj.status] ELSE stored

\* r.Update on a Torrent: when the write succeeds the stored object takes
\* the finalizers passed and keeps its own status; an object whose deletion
\* was requested goes away with its last finalizer.
Update(stored, obj, ok) ==
    IF ~ok THEN stored
    ELSE IF stored.deleting /\ ~obj.finalizer THEN NoObject
    ELSE [stored EXCEPT !.finalizer = obj.finalizer]

\* --------------------------------------------------- Torrent: getQBTClient

NoPoolCall(cl, en, tm) ==
    [clients |-> cl, entries |-> en, timers |-> tm, client |-> NoHandle,
     err |-> <<>>, logins |-> 0]

Namespace == <<"ns">>

ErrReferencedNotFound(name) ==
    <<"referenced TorrentClientConfiguration ", name, " not found: ",
      "not found">>
ErrNoneFound ==
    <<"no TorrentClientConfiguration found in namespace ", Namespace>>
ErrMultiple ==
    <<"multiple", " TorrentClientConfigurations found in namespace ",
      Namespace, "; set spec.clientConfigRef to select one">>
ErrNotAvailable(name) ==
    <<"TorrentClientConfiguration ", name, " is not available">>
ErrSecret(name) ==
    <<"failed to get credentials secret ", name, ": ", "not found">>

\* r.List of the TorrentClientConfigurations of the namespace.
List(cfgs) == {n \in ConfigNames : cfgs[n].exists}

\* A getQBTClient that takes any configuration selected as usable.
IsAvailableUnchecked(conditions) == TRUE

\* The condition check of getQBTClient: an Available condition, status True.
IsAvailable(conditions) ==
    /\ HasCondition(conditions, TypeAvailable)
    /\ FindStatusCondition(conditions, TypeAvailable).status = "True"

ResolutionFailed(t, err, gets, listed, selected, cl, en, tm) ==
    [torrent |-> t, client |-> NoHandle, err |-> err, gets |-> gets,
     listed |-> listed, selected |-> selected, poolCalls |-> 0,
     pool |-> NoPoolCall(cl, en, tm)]

\* A getQBTClient that does not write the name of the configuration.
ConnectUnrecorded(t, name, cfgs, secs, gets, cl, en, tm, loginOk) ==
    LET tcc == cfgs[name]
        secretName == tcc.credentialsSecret
        secret == secs[secretName]
        url == tcc.url
        username == Lookup(secret.data, "username")
        password == Lookup(secret.data, "password")
        pool == GetOrCreate(cl, en, tm, url, username, password,
                            loginOk /\ Accepts(url, username, password))
    IN IF ~IsAvailable(tcc.conditions)
       THEN ResolutionFailed(t, ErrNotAvailable(name), gets, TRUE, name,
                             cl, en, tm)
       ELSE IF ~secret.exists
       THEN ResolutionFailed(t, ErrSecret(secretName), gets, TRUE, name,
                             cl, en, tm)
       ELSE [torrent |-> t, client |-> pool.client, err |-> pool.err,
             gets |-> gets, listed |-> TRUE, selected |-> name,
             poolCalls |-> 1, pool |-> pool]

\* The part of getQBTClient after a configuration is selected.
Connect(t, name, cfgs, secs, gets, cl, en, tm, loginOk) ==
    LET tcc == cfgs[name]
        obj == [t EXCEPT !.status.clientConfigurationName = name]
        secretName == tcc.credentialsSecret
        secret == secs[secretName]
        url == tcc.url
        username == Lookup(secret.data, "username")
        password == Lookup(secret.data, "password")
        pool == GetOrCreate(cl, en, tm, url, username, password,
                            loginOk /\ Accepts(url, username, password))
    IN IF ~IsAvailable(tcc.conditions)
       THEN ResolutionFailed(t, ErrNotAvailable(name), gets, TRUE, name,
                             cl, en, tm)
       ELSE IF ~secret.exists
       THEN ResolutionFailed(obj, ErrSecret(secretName), gets, TRUE, name,
                             cl, en, tm)
       ELSE [torrent |-> obj, client |-> pool.client, err |-> pool.err,
             gets |-> gets, listed |-> TRUE, selected |-> name,
             poolCalls |-> 1, pool |-> pool]

\* A switch that takes the first configuration when several are listed.
DiscoverFirst(t, cfgs, secs, gets, cl, en, tm, loginOk) ==
    LET items == List(cfgs)
    IN IF Cardinality(items) = 0
       THEN ResolutionFailed(t, ErrNoneFound, gets, TRUE, None, cl, en, tm)
       ELSE Connect(t, CHOOSE n \in items : \A m \in items : n <= m, cfgs,
                    secs, gets, cl, en, tm, loginOk)

\* The switch of getQBTClient on the number of configurations listed.
Discover(t, cfgs, secs, gets, cl, en, tm, loginOk) ==
    LET items == List(cfgs)
    IN IF Cardinality(items) = 0
       THEN ResolutionFailed(t, ErrNoneFound, gets, TRUE, None, cl, en, tm)
       ELSE IF Cardinality(items) = 1
       THEN Connect(t, CHOOSE n \in items : TRUE, cfgs, secs, gets,
                    cl, en, tm, loginOk)
       ELSE ResolutionFailed(t, ErrMultiple, gets, TRUE, None, cl, en, tm)

\* A getQBTClient that falls back to the listing when the configuration
\* referenced is not found.
getQBTClientFallback(t, cfgs, secs, cl, en, tm, loginOk) ==
    Discover(t, cfgs, secs, IF t.clientConfigRef # None
                            THEN <<t.clientConfigRef>> ELSE <<>>,
             cl, en, tm, loginOk)

\* getQBTClient.  The configuration fetched for an explicit reference is
\* assigned to a variable of the inner block, so the listing that follows
\* decides also when a reference is given.
getQBTClient(t, cfgs, secs, cl, en, tm, loginOk) ==
    LET ref == t.clientConfigRef
    IN IF ref # None /\ ~cfgs[ref].exists
       THEN ResolutionFailed(t, ErrReferencedNotFound(ref), <<ref>>, FALSE,
                             None, cl, en, tm)
       ELSE Discover(t, cfgs, secs, IF ref # None THEN <<ref>> ELSE <<>>,
                     cl, en, tm, loginOk)

\* ------------------------------------------------------ Torrent: Reconcile

NoResolution ==
    [called |-> FALSE, err |-> <<>>, gets |-> <<>>, listed |-> FALSE,
     selected |-> None, poolCalls |-> 0, logins |-> 0]

Resolution(res) ==
    [called |-> TRUE, err |-> res.err, gets |-> res.gets,
     listed |-> res.listed, selected |-> res.selected,
     poolCalls |-> res.poolCalls, logins |-> res.pool.logins]

ErrUnreachable == <<"connection refused">>
ErrWrite == <<"the object has been modified">>

\* What one Reconcile of the Torrent leaves behind: the stored object, the
\* engine, the pool, and for the record the object in the reconciler's
\* memory, the result returned, the resolution made, the remote calls made
\* in order, the conditions set in order and the writes to the store issued
\* in order, whether or not they went through.
Outcome(stored, eng, pool, obj, requeueAfter, err, res, remote, set, writes) ==
    [torrent |-> stored, engine |-> eng, pool |-> pool, obj |-> obj,
     result |-> [requeueAfter |-> requeueAfter, err |-> err],
     resolution |-> res, remote |-> remote, set |-> set, writes |-> writes]

setDegradedTorrent(t, reason, message) ==
    [t EXCEPT !.status.conditions = setDegradedCondition(@, reason, message)]

setAvailableTorrent(t, reason, message) ==
    [t EXCEPT !.status.conditions = setAvailableCondition(@, reason, message)]

\* An updateTorrentStatus that leaves out the bytes remaining.
updateTorrentStatusPartial(t, qbTorrent) ==
    LET st == t.status
        new == [st EXCEPT !.hash = qbTorrent.hash,
                          !.name = qbTorrent.name,
                          !.state = qbTorrent.state,
                          !.totalSize = qbTorrent.totalSize,
                          !.contentPath = qbTorrent.contentPath,
                          !.addedOn = qbTorrent.addedOn,
                          !.timeActive = qbTorrent.timeActive]
    IN [torrent |-> [t EXCEPT !.status = new], updated |-> new # st]

\* An updateTorrentStatus that reports a change whether or not a field
\* differs.
updateTorrentStatusAlways(t, qbTorrent) ==
    LET st == t.status
        new == [st EXCEPT !.hash = qbTorrent.hash,
                          !.name = qbTorrent.name,
                          !.state = qbTorrent.state,
                          !.totalSize = qbTorrent.totalSize,
                          !.contentPath = qbTorrent.contentPath,
                          !.addedOn = qbTorrent.addedOn,
                          !.timeActive = qbTorrent.timeActive,
                          !.amountLeft = qbTorrent.amountLeft]
    IN [torrent |-> [t EXCEPT !.status = new], updated |-> TRUE]

updateTorrentStatus(t, qbTorrent) ==
    LET st == t.status
        new == [st EXCEPT !.hash = qbTorrent.hash,
                          !.name = qbTorrent.name,
                          !.state = qbTorrent.state,
                          !.totalSize = qbTorrent.totalSize,
                          !.contentPath = qbTorrent.contentPath,
                          !.addedOn = qbTorrent.addedOn,
                          !.timeActive = qbTorrent.timeActive,
                          !.amountLeft = qbTorrent.amountLeft]
    IN [torrent |-> [t EXCEPT !.status = new], updated |-> new # st]

\* GetTorrentInfo: the torrent the engine holds under the hash, if any.
Holds(eng, url, hash) == eng[url].exists /\ eng[url].hash = hash

\* A step 3 that asks for the re-queue without saving the finalizer.
AddFinalizerUnsaved(t, eng, cl, en, tm, in) ==
    Outcome(t, eng, NoPoolCall(cl, en, tm), [t EXCEPT !.finalizer = TRUE],
            1, <<>>, NoResolution, <<>>, <<>>, <<>>)

\* Step 3 of Reconcile: the finalizer is added and nothing else is done.
AddFinalizer(t, eng, cl, en, tm, in) ==
    LET obj == [t EXCEPT !.finalizer = TRUE]
    IN IF in.write1
       THEN Outcome(Update(t, obj, TRUE), eng, NoPoolCall(cl, en, tm), obj,
                    1, <<>>, NoResolution, <<>>, <<>>, <<"Update">>)
       ELSE Outcome(t, eng, NoPoolCall(cl, en, tm), obj,
                    0, ErrWrite, NoResolution, <<>>, <<>>, <<"Update">>)

\* A step 4 that hands the resolution error to the scheduler.
ClientResolutionFailedAsError(t, eng, res, in) ==
    LET obj == setDegradedTorrent(res.torrent, "ClientResolutionFailed",
                                  res.err)
    IN Outcome(StatusUpdate(t, obj, in.write1), eng, res.pool, obj,
               0, res.err, Resolution(res), <<>>, <<TypeDegraded>>, <<"Status().Update">>)

\* Step 4 of Reconcile when getQBTClient fails.
ClientResolutionFailed(t, eng, res, in) ==
    LET obj == setDegradedTorrent(res.torrent, "ClientResolutionFailed",
                                  res.err)
    IN Outcome(StatusUpdate(t, obj, in.write1), eng, res.pool, obj,
               15, <<>>, Resolution(res), <<>>, <<TypeDegraded>>, <<"Status().Update">>)

\* A step 5 that hands the failure of AddTorrent to the scheduler.
TorrentNotFoundAsError(t, eng, res, url, hash, in) ==
    LET get == <<[call |-> "GetTorrentInfo", hash |-> hash]>>
        add == <<[call |-> "AddTorrent", magnetURI |-> t.magnetURI]>>
        added == setAvailableTorrent(res.torrent, "TorrentAdded",
                                     <<"Torrent added to qBittorrent">>)
    IN IF in.fails = "AddTorrent"
       THEN Outcome(t, eng, res.pool, res.torrent, 0, ErrUnreachable,
                    Resolution(res), get \o add, <<>>, <<>>)
       ELSE Outcome(StatusUpdate(t, added, in.write1),
                    [eng EXCEPT ![url] = TorrentInfo(hash, "downloading", 1)],
                    res.pool, added, 5, <<>>, Resolution(res),
                    get \o add, <<TypeAvailable>>, <<"Status().Update">>)

\* Step 5 of Reconcile when the engine holds no torrent under the hash.
TorrentNotFound(t, eng, res, url, hash, in) ==
    LET get == <<[call |-> "GetTorrentInfo", hash |-> hash]>>
        add == <<[call |-> "AddTorrent", magnetURI |-> t.magnetURI]>>
        failedAdd == setDegradedTorrent(res.torrent, "FailedToAddTorrent",
                                        ErrUnreachable)
        added == setAvailableTorrent(res.torrent, "TorrentAdded",
                                     <<"Torrent added to qBittorrent">>)
    IN IF in.fails = "AddTorrent"
       THEN Outcome(StatusUpdate(t, failedAdd, in.write1), eng, res.pool,
                    failedAdd, 10, <<>>, Resolution(res), get \o add,
                    <<TypeDegraded>>, <<"Status().Update">>)
       ELSE Outcome(StatusUpdate(t, added, in.write1),
                    [eng EXCEPT ![url] = TorrentInfo(hash, "downloading", 1)],
                    res.pool, added, 5, <<>>, Resolution(res),
                    get \o add, <<TypeAvailable>>, <<"Status().Update">>)

\* A step 5 that takes a failed GetTorrentInfo for "no such torrent" and
\* goes on to add it.
SyncAddingOnFailure(t, cfgs, eng, res, in) ==
    LET url == cfgs[res.selected].url
        parsed == GetTorrentHash(t.magnetURI)
        hash == parsed.hash
        mem == res.torrent
        get == <<[call |-> "GetTorrentInfo", hash |-> hash]>>
        upd == updateTorrentStatus(mem, eng[url])
        first == StatusUpdate(t, upd.torrent, upd.updated /\ in.write1)
        active == setAvailableTorrent(upd.torrent, "TorrentActive",
                                      <<"Torrent is active on qBittorrent">>)
    IN IF parsed.err # <<>>
       THEN Outcome(t, eng, res.pool, mem, 0, parsed.err, Resolution(res),
                    <<>>, <<>>, <<>>)
       ELSE IF in.fails = "GetTorrentInfo" \/ ~Holds(eng, url, hash)
       THEN TorrentNotFound(t, eng, res, url, hash, in)
       ELSE IF upd.updated /\ ~in.write1
       THEN Outcome(t, eng, res.pool, upd.torrent, 0, ErrWrite,
                    Resolution(res), get, <<>>, <<"Status().Update">>)
       ELSE Outcome(StatusUpdate(first, active, in.write2), eng, res.pool,
                    active, 15, <<>>, Resolution(res), get,
                    <<TypeAvailable>>, IF upd.updated
                    THEN <<"Status().Update", "Status().Update">>
                    ELSE <<"Status().Update">>)

\* Steps 5 and 6 of Reconcile, with the client in hand.
Sync(t, cfgs, eng, res, in) ==
    LET url == cfgs[res.selected].url
        parsed == GetTorrentHash(t.magnetURI)
        hash == parsed.hash
        mem == res.torrent
        get == <<[call |-> "GetTorrentInfo", hash |-> hash]>>
        failedInfo == setDegradedTorrent(mem, "FailedToGetTorrentInfo",
                                         ErrUnreachable)
        upd == updateTorrentStatus(mem, eng[url])
        first == StatusUpdate(t, upd.torrent, upd.updated /\ in.write1)
        active == setAvailableTorrent(upd.torrent, "TorrentActive",
                                      <<"Torrent is active on qBittorrent">>)
    IN IF parsed.err # <<>>
       THEN Outcome(t, eng, res.pool, mem, 0, parsed.err, Resolution(res),
                    <<>>, <<>>, <<>>)
       ELSE IF in.fails = "GetTorrentInfo"
       THEN Outcome(StatusUpdate(t, failedInfo, in.write1), eng, res.pool,
                    failedInfo, 10, <<>>, Resolution(res), get,
                    <<TypeDegraded>>, <<"Status().Update">>)
       ELSE IF ~Holds(eng, url, hash)
       THEN TorrentNotFound(t, eng, res, url, hash, in)
       ELSE IF upd.updated /\ ~in.write1
       THEN Outcome(t, eng, res.pool, upd.torrent, 0, ErrWrite,
                    Resolution(res), get, <<>>, <<"Status().Update">>)
       ELSE Outcome(StatusUpdate(first, active, in.write2), eng, res.pool,
                    active, 15, <<>>, Resolution(res), get,
                    <<TypeAvailable>>, IF upd.updated
                    THEN <<"Status().Update", "Status().Update">>
                    ELSE <<"Status().Update">>)

\* A handleDeletion that has the files deleted whatever the flag says.
DeleteFilesAlways(deleteFilesOnRemoval) == TRUE

\* spec.deleteFilesOnRemoval: the flag given, or true when none is given.
DeleteFiles(deleteFilesOnRemoval) ==
    IF deleteFilesOnRemoval = "nil" THEN TRUE
    ELSE deleteFilesOnRemoval = "true"

\* An end of handleDeletion that reports success without saving the object.
RemoveFinalizerUnsaved(t, eng, pool, mem, res, remote, in) ==
    Outcome(t, eng, pool, [mem EXCEPT !.finalizer = FALSE], 0, <<>>, res,
            remote, <<>>, <<>>)

\* The end of handleDeletion: the finalizer is removed and the object saved.
RemoveFinalizer(t, eng, pool, mem, res, remote, in) ==
    LET obj == [mem EXCEPT !.finalizer = FALSE]
    IN IF in.write2
       THEN Outcome(Update(t, obj, TRUE), eng, pool, obj, 0, <<>>, res,
                    remote, <<>>, <<"Update">>)
       ELSE Outcome(t, eng, pool, obj, 0, ErrWrite, res, remote, <<>>, <<"Update">>)

\* A handleDeletion that gives the object up when DeleteTorrent fails.
DeleteFailedGivesUp(t, eng, res, remote, in) ==
    RemoveFinalizer(t, eng, res.pool, res.torrent, Resolution(res), remote, in)

\* handleDeletion when DeleteTorrent fails: Degraded, and the finalizer stays.
DeleteFailed(t, eng, res, remote, in) ==
    LET obj == setDegradedTorrent(res.torrent, "FailedToDeleteTorrent",
                                  ErrUnreachable)
    IN Outcome(StatusUpdate(t, obj, in.write1), eng, res.pool, obj,
               10, <<>>, Resolution(res), remote, <<TypeDegraded>>, <<"Status().Update">>)

\* A handleDeletion that waits for the client to resolve.
WaitForClient(t, eng, res, in) ==
    ClientResolutionFailed(t, eng, res, in)

\* handleDeletion when getQBTClient fails: logged, and the finalizer goes.
RemoveFinalizerAnyway(t, eng, res, in) ==
    RemoveFinalizer(t, eng, res.pool, res.torrent, Resolution(res), <<>>, in)

handleDeletion(t, cfgs, secs, eng, cl, en, tm, in) ==
    LET res == getQBTClient(t, cfgs, secs, cl, en, tm, in.fails # "Login")
        url == cfgs[res.selected].url
        call1 == <<[call |-> "DeleteTorrent", hash |-> t.status.hash,
                    deleteFiles |-> DeleteFiles(in.deleteFilesOnRemoval)]>>
        gone == IF Holds(eng, url, t.status.hash)
                THEN [eng EXCEPT ![url] = NoObject] ELSE eng
    IN IF t.status.hash = <<>>
       THEN RemoveFinalizer(t, eng, NoPoolCall(cl, en, tm), t, NoResolution,
                            <<>>, in)
       ELSE IF res.err # <<>>
       THEN RemoveFinalizerAnyway(t, eng, res, in)
       ELSE IF in.fails = "DeleteTorrent"
       THEN DeleteFailed(t, eng, res, call1, in)
       ELSE RemoveFinalizer(t, gone, res.pool, res.torrent, Resolution(res),
                            call1, in)

\* TorrentReconciler.Reconcile.
ReconcileTorrent(t, cfgs, secs, eng, cl, en, tm, in) ==
    LET res == getQBTClient(t, cfgs, secs, cl, en, tm, in.fails # "Login")
    IN IF ~t.exists
       THEN Outcome(t, eng, NoPoolCall(cl, en, tm), t, 0, <<>>,
                    NoResolution, <<>>, <<>>, <<>>)
       ELSE IF t.deleting
       THEN handleDeletion(t, cfgs, secs, eng, cl, en, tm, in)
       ELSE IF ~t.finalizer
       THEN AddFinalizer(t, eng, cl, en, tm, in)
       ELSE IF res.err # <<>>
       THEN ClientResolutionFailed(t, eng, res, in)
       ELSE Sync(t, cfgs, eng, res, in)

\* ------------------------------ TorrentClientConfiguration: Reconcile

\* time.ParseDuration on the values of spec.checkInterval considered, in
\* seconds; 0 stands for a string that does not parse.
CheckIntervals == {"", "30s", "soon"}
ParseDuration(str) == IF str = "30s" THEN 30 ELSE 0

\* A step 2 that leaves the interval at its default.
checkIntervalDefault(str) == 60

\* Step 2 of Reconcile: the interval given if it parses, else 60 seconds.
checkInterval(str) ==
    IF str # "" /\ ParseDuration(str) # 0 THEN ParseDuration(str) ELSE 60

\* What one Reconcile of a TorrentClientConfiguration leaves behind: the
\* stored object and the pool, and for the record the object in memory, the
\* result returned, the GetOrCreate call made, the remote calls made in
\* order and the conditions set in order.
TCCOutcome(stored, pool, poolCalls, obj, requeueAfter, err, remote, set) ==
    [tcc |-> stored, pool |-> pool, obj |-> obj,
     result |-> [requeueAfter |-> requeueAfter, err |-> err],
     session |-> [poolCalls |-> poolCalls, logins |-> pool.logins,
                  err |-> pool.err],
     remote |-> remote, set |-> set]

\* A status write that stores connected and lastChecked and leaves the
\* conditions as they were.
TCCStatusUpdateNoConditions(stored, obj, ok) ==
    IF ok THEN [stored EXCEPT !.connected = obj.connected,
                              !.checked = obj.checked]
    ELSE stored

\* r.Status().Update on a TorrentClientConfiguration.
TCCStatusUpdate(stored, obj, ok) ==
    IF ok THEN [stored EXCEPT !.connected = obj.connected,
                              !.checked = obj.checked,
                              !.conditions = obj.conditions]
    ELSE stored

\* A failure branch that does not save the status it has set.
TCCDegradedUnsaved(tcc, pool, poolCalls, reason, message, interval, remote, ok) ==
    LET obj == [tcc EXCEPT
                   !.conditions = setDegradedCondition(@, reason, message),
                   !.connected = FALSE, !.checked = TRUE]
    IN TCCOutcome(tcc, pool, poolCalls, obj, interval, <<>>, remote,
                  <<TypeDegraded>>)

\* A failure branch that drops the session from the pool when a call made
\* with it has failed.
TCCDegradedEvicting(tcc, pool, poolCalls, reason, message, interval, remote, ok) ==
    LET obj == [tcc EXCEPT
                   !.conditions = setDegradedCondition(@, reason, message),
                   !.connected = FALSE, !.checked = TRUE]
        kept == {k \in DOMAIN pool.clients :
                    remote = <<>> \/ pool.clients[k] # pool.client}
    IN TCCOutcome(TCCStatusUpdate(tcc, obj, ok),
                  [pool EXCEPT !.clients = [k \in kept |-> pool.clients[k]]],
                  poolCalls, obj, interval, <<>>, remote, <<TypeDegraded>>)

\* A failure branch that leaves status.connected as it found it.
TCCDegradedStillConnected(tcc, pool, poolCalls, reason, message, interval, remote, ok) ==
    LET obj == [tcc EXCEPT
                   !.conditions = setDegradedCondition(@, reason, message),
                   !.checked = TRUE]
    IN TCCOutcome(TCCStatusUpdate(tcc, obj, ok), pool, poolCalls, obj,
                  interval, <<>>, remote, <<TypeDegraded>>)

\* The failure branches of Reconcile: Degraded, not connected, checked now.
TCCDegraded(tcc, pool, poolCalls, reason, message, interval, remote, ok) ==
    LET obj == [tcc EXCEPT
                   !.conditions = setDegradedCondition(@, reason, message),
                   !.connected = FALSE, !.checked = TRUE]
    IN TCCOutcome(TCCStatusUpdate(tcc, obj, ok), pool, poolCalls, obj,
                  interval, <<>>, remote, <<TypeDegraded>>)

\* A check of the secret that asks for no key.
HasKeysUnchecked(data) == TRUE

\* The check of the secret's keys: username and password are both there.
HasKeys(data) == {"username", "password"} \subseteq DOMAIN data

\* TorrentClientConfigurationReconciler.Reconcile.
ReconcileTCC(tcc, secs, cl, en, tm, in) ==
    LET interval == checkInterval(in.checkInterval)
        secretName == tcc.credentialsSecret
        secret == secs[secretName]
        none == NoPoolCall(cl, en, tm)
        username == Lookup(secret.data, "username")
        password == Lookup(secret.data, "password")
        pool == GetOrCreate(cl, en, tm, tcc.url, username, password,
                            in.fails # "Login" /\ Accepts(tcc.url, username, password))
        ping == <<[call |-> "Ping"]>>
        obj == [tcc EXCEPT
                   !.conditions = setAvailableCondition(@, "Connected",
                       <<"Successfully connected to qBittorrent at ",
                         tcc.url>>),
                   !.connected = TRUE, !.checked = TRUE]
    IN IF ~tcc.exists
       THEN TCCOutcome(tcc, none, 0, tcc, 0, <<>>, <<>>, <<>>)
       ELSE IF ~secret.exists
       THEN TCCDegraded(tcc, none, 0, "SecretNotFound",
                <<"Credentials secret ", secretName, " not found: ",
                  "not found">>, interval, <<>>, in.write1)
       ELSE IF ~HasKeys(secret.data)
       THEN TCCDegraded(tcc, none, 0, "SecretInvalid",
                <<"Credentials secret ", secretName,
                  " missing 'username' or 'password' key">>,
                interval, <<>>, in.write1)
       ELSE IF pool.err # <<>>
       THEN TCCDegraded(tcc, pool, 1, "ClientCreationFailed",
                <<"Failed to create qBittorrent client for ", tcc.url, ": ">>
                    \o pool.err, interval, <<>>, in.write1)
       ELSE IF in.fails = "Ping"
       THEN TCCDegraded(tcc, pool, 1, "HealthCheckFailed",
                <<"qBittorrent health check failed at ", tcc.url, ": ">>
                    \o ErrUnreachable, interval, ping, in.write1)
       ELSE IF ~in.write1
       THEN TCCOutcome(tcc, pool, 1, obj, 0, ErrWrite, ping,
                       <<TypeAvailable>>)
       ELSE TCCOutcome(TCCStatusUpdate(tcc, obj, TRUE), pool, 1, obj,
                       interval, <<>>, ping, <<TypeAvailable>>)

\* ------------------------------------------------ TorrentServer: Reconcile

\* The TorrentClientConfiguration a TorrentServer owns, <name>-client-config.
ServerConfigName == 1

\* The secret a TorrentServer generates, <name>-credentials.
GeneratedSecret == "server-credentials"

EmptyServerStatus ==
    [deploymentName |-> "", serviceName |-> "", configPVCName |-> "",
     clientConfigurationName |-> None, url |-> <<>>, readyReplicas |-> 0,
     conditions |-> <<>>]

\* The objects of the namespace besides secrets and configurations, by kind
\* and name: the PVC a user made for the downloads, and the config PVC, the
\* Deployment and the Service a TorrentServer named "server" ensures.
DownloadPVC == <<"PersistentVolumeClaim", "downloads">>
ConfigPVC == <<"PersistentVolumeClaim", "server-config">>
Deployment == <<"Deployment", "server">>
Service == <<"Service", "server">>
ObjectNames == {DownloadPVC, ConfigPVC, Deployment, Service}

\* The generated secret and the client configuration, as owner references
\* name them.
CredentialsSecretObject == <<"Secret", "server-credentials">>
ClientConfigObject == <<"TorrentClientConfiguration", "server-client-config">>

\* The PVC the user made for the downloads.
UserPVC == [exists |-> TRUE, spec |-> [size |-> "100Gi"]]

\* spec.downloadVolumes[].claimName of the TorrentServer.
DownloadVolumes == {"downloads"}

NewServer(credentialsSecret) ==
    [exists |-> TRUE, deleting |-> FALSE,
     credentialsSecret |-> credentialsSecret,
     downloadVolumes |-> DownloadVolumes, status |-> EmptyServerStatus]

\* The dependents a Reconcile reads and writes.
Dependents(own, objs, secs, cfgs) ==
    [owned |-> own, objects |-> objs, secrets |-> secs, tccs |-> cfgs]

\* The store calls of the ensure steps, in the order Reconcile makes them.
EnsureSteps == {"CredentialsSecret", "ConfigPVC", "Deployment", "Service",
                "ClientConfig"}

\* ensureCredentialsSecret: the error, and the dependents it leaves.  The
\* read of the secret may fail although the secret exists (failAt =
\* "GetSecret"); for a generated secret every failed read leads to
\* CreateOrUpdate, whose mutate function sets the controller reference and
\* draws a password for the secret it finds or creates.
ensureCredentialsSecret(ts, deps, failAt, password) ==
    LET ref == ts.credentialsSecret
        secs == deps.secrets
        referenced == secs[ref]
        fresh == SecretWith([k \in {"username", "password"} |->
                     IF k = "username" THEN GeneratedUsername
                     ELSE password])
    IN IF ref # ""
       THEN IF ~referenced.exists \/ failAt = "GetSecret"
            THEN [name |-> "", deps |-> deps,
                  err |-> <<"credentials secret ", ref, " not found: ",
                            IF referenced.exists THEN "timeout"
                            ELSE "not found">>]
            ELSE IF "username" \notin DOMAIN referenced.data
            THEN [name |-> "", deps |-> deps,
                  err |-> <<"credentials secret ", ref,
                            " missing 'username' key">>]
            ELSE IF "password" \notin DOMAIN referenced.data
            THEN [name |-> "", deps |-> deps,
                  err |-> <<"credentials secret ", ref,
                            " missing 'password' key">>]
            ELSE [name |-> ref, deps |-> deps, err |-> <<>>]
       ELSE IF secs[GeneratedSecret].exists /\ failAt # "GetSecret"
       THEN [name |-> GeneratedSecret, deps |-> deps, err |-> <<>>]
       ELSE IF failAt = "CredentialsSecret"
       THEN [name |-> "", deps |-> deps,
             err |-> <<"failed to create credentials secret: ">> \o ErrWrite]
       ELSE [name |-> GeneratedSecret,
             deps |-> [deps EXCEPT
                          !.secrets[GeneratedSecret] = fresh,
                          !.owned = @ \cup {CredentialsSecretObject}],
             err |-> <<>>]

\* ensureConfigPVC: CreateOrUpdate sets the controller reference, and the
\* spec only of a PVC it creates.  The PVC is modelled with the one file the
\* pod keeps on it, /config/qBittorrent/qBittorrent.conf.
ensureConfigPVC(ts, deps, failAt) ==
    IF failAt = "ConfigPVC"
    THEN [name |-> "", deps |-> deps,
          err |-> <<"failed to ensure config PVC: ">> \o ErrWrite]
    ELSE [name |-> "server-config",
          deps |-> [deps EXCEPT
                       !.objects[ConfigPVC] =
                           IF @.exists THEN @
                           ELSE [exists |-> TRUE, spec |-> [size |-> "1Gi"],
                                 config |-> NoObject],
                       !.owned = @ \cup {ConfigPVC}],
          err |-> <<>>]

\* An ensureDeployment that takes the download PVCs it mounts as its own.
ensureDeploymentOwningVolumes(ts, deps, configPVCName, credentialsSecretName, failAt) ==
    [name |-> "server",
     deps |-> [deps EXCEPT
                  !.objects[Deployment] =
                      [exists |-> TRUE,
                       spec |-> [claims |-> {configPVCName}
                                               \cup ts.downloadVolumes,
                                 secretName |-> credentialsSecretName]],
                  !.owned = @ \cup {Deployment}
                              \cup {<<"PersistentVolumeClaim", n>> :
                                       n \in ts.downloadVolumes}],
     err |-> IF failAt = "Deployment"
             THEN <<"failed to ensure deployment: ">> \o ErrWrite
             ELSE <<>>]

\* ensureDeployment: the volumes name the config PVC and the download PVCs
\* of the spec; only the Deployment is written.
ensureDeployment(ts, deps, configPVCName, credentialsSecretName, failAt) ==
    IF failAt = "Deployment"
    THEN [name |-> "", deps |-> deps,
          err |-> <<"failed to ensure deployment: ">> \o ErrWrite]
    ELSE [name |-> "server",
          deps |-> [deps EXCEPT
                       !.objects[Deployment] =
                           [exists |-> TRUE,
                            spec |-> [claims |-> {configPVCName}
                                                    \cup ts.downloadVolumes,
                                      secretName |-> credentialsSecretName]],
                       !.owned = @ \cup {Deployment}],
          err |-> <<>>]

\* ensureService.
ensureService(ts, deps, failAt) ==
    IF failAt = "Service"
    THEN [name |-> "", deps |-> deps,
          err |-> <<"failed to ensure service: ">> \o ErrWrite]
    ELSE [name |-> "server",
          deps |-> [deps EXCEPT
                       !.objects[Service] =
                           [exists |-> TRUE, spec |-> [port |-> "8080"]],
                       !.owned = @ \cup {Service}],
          err |-> <<>>]

\* ensureTorrentClientConfiguration: CreateOrUpdate sets the controller
\* reference and the spec of the owned configuration and leaves the status
\* it has.
ensureTorrentClientConfiguration(ts, deps, serviceURL, secretName, failAt) ==
    IF failAt = "ClientConfig"
    THEN [name |-> None, deps |-> deps,
          err |-> <<"failed to ensure TorrentClientConfiguration: ">>
                     \o ErrWrite]
    ELSE [name |-> ServerConfigName,
          deps |-> [deps EXCEPT
                       !.tccs[ServerConfigName] =
                           IF @.exists
                           THEN [@ EXCEPT !.url = serviceURL,
                                          !.credentialsSecret = secretName]
                           ELSE NewTCC(serviceURL, secretName),
                       !.owned = @ \cup {ClientConfigObject}],
          err |-> <<>>]

ServerOutcome(stored, deps, obj, requeueAfter, err, set, steps, failed) ==
    [server |-> stored, owned |-> deps.owned, objects |-> deps.objects,
     secrets |-> deps.secrets, tccs |-> deps.tccs,
     obj |-> obj, result |-> [requeueAfter |-> requeueAfter, err |-> err],
     set |-> set, steps |-> steps, failed |-> failed]

\* The ensure steps in the order Reconcile calls them.
EnsureOrder == <<"CredentialsSecret", "ConfigPVC", "Deployment", "Service",
                 "ClientConfig">>

\* A failure branch that returns the step's error instead of a re-queue.
ServerDegradedAsError(ts, deps, reason, message, ok, n) ==
    LET obj == [ts EXCEPT !.status.conditions =
                              setDegradedCondition(@, reason, message)]
    IN ServerOutcome(StatusUpdate(ts, obj, ok), deps, obj, 0, message,
                     <<TypeDegraded>>, SubSeq(EnsureOrder, 1, n),
                     EnsureOrder[n])

\* The failure branches of Reconcile: Degraded, saved if the store allows.
\* The step whose error is handled is the last of the n steps called.
ServerDegraded(ts, deps, reason, message, ok, n) ==
    LET obj == [ts EXCEPT !.status.conditions =
                              setDegradedCondition(@, reason, message)]
    IN ServerOutcome(StatusUpdate(ts, obj, ok), deps, obj, 10, <<>>,
                     <<TypeDegraded>>, SubSeq(EnsureOrder, 1, n),
                     EnsureOrder[n])

\* TorrentServerReconciler.Reconcile.
ReconcileServer(ts, deps, in) ==
    LET cred == ensureCredentialsSecret(ts, deps, in.failAt, in.password)
        pvc == ensureConfigPVC(ts, cred.deps, in.failAt)
        deployment == ensureDeployment(ts, pvc.deps, pvc.name, cred.name,
                                       in.failAt)
        svc == ensureService(ts, deployment.deps, in.failAt)
        tcc == ensureTorrentClientConfiguration(ts, svc.deps, ServiceURL,
                                                cred.name, in.failAt)
        obj == [ts EXCEPT
                   !.status.readyReplicas = in.readyReplicas,
                   !.status.deploymentName = deployment.name,
                   !.status.serviceName = svc.name,
                   !.status.configPVCName = pvc.name,
                   !.status.clientConfigurationName = tcc.name,
                   !.status.url = ServiceURL,
                   !.status.conditions = setAvailableCondition(@, "Reconciled",
                       <<"All resources are reconciled">>)]
    IN IF ~ts.exists
       THEN ServerOutcome(ts, deps, ts, 0, <<>>, <<>>, <<>>, "none")
       ELSE IF ts.deleting
       THEN ServerOutcome(ts, deps, ts, 0,
                          IF in.write1 THEN <<>> ELSE ErrWrite, <<>>, <<>>,
                          "none")
       ELSE IF cred.err # <<>>
       THEN ServerDegraded(ts, cred.deps, "CredentialsSecretError", cred.err,
                           in.write1, 1)
       ELSE IF pvc.err # <<>>
       THEN ServerDegraded(ts, pvc.deps, "ConfigPVCError", pvc.err,
                           in.write1, 2)
       ELSE IF deployment.err # <<>>
       THEN ServerDegraded(ts, deployment.deps, "DeploymentError",
                           deployment.err, in.write1, 3)
       ELSE IF svc.err # <<>>
       THEN ServerDegraded(ts, svc.deps, "ServiceError", svc.err,
                           in.write1, 4)
       ELSE IF tcc.err # <<>>
       THEN ServerDegraded(ts, tcc.deps, "ClientConfigError", tcc.err,
                           in.write1, 5)
       ELSE IF ~in.write1
       THEN ServerOutcome(ts, tcc.deps, obj, 0, ErrWrite, <<TypeAvailable>>,
                          EnsureOrder, "none")
       ELSE ServerOutcome(StatusUpdate(ts, obj, TRUE), tcc.deps, obj, 30,
                          <<>>, <<TypeAvailable>>, EnsureOrder, "none")

\* ------------------------------------------------------ controllers: steps

\* The pool after a reconcile: what GetOrCreate left, less the entries that
\* nothing refers to any more.
SetPool(pool) ==
    /\ Cardinality(pool.timers) <= MaxTimers
    /\ clients' = pool.clients
    /\ timers' = pool.timers
    /\ entries' = Collect(pool.entries, pool.clients, call, pool.timers)
    /\ UNCHANGED call

\* A reconcile stops calling the engine at the first call that fails, so its
\* remote input is the one call that fails, if any.  Each store write may
\* fail.  spec.deleteFilesOnRemoval is read as the user last set it.  The
\* inputs that the branch taken does not read are held fixed.
TorrentInputs(t) ==
    IF ~t.exists
    THEN [fails : {"none"}, write1 : {TRUE}, write2 : {TRUE},
          deleteFilesOnRemoval : {"nil"}]
    ELSE IF t.deleting
    THEN [fails : {"none", "Login", "DeleteTorrent"}, write1 : BOOLEAN,
          write2 : BOOLEAN, deleteFilesOnRemoval : {"nil", "true", "false"}]
    ELSE IF ~t.finalizer
    THEN [fails : {"none"}, write1 : BOOLEAN, write2 : {TRUE},
          deleteFilesOnRemoval : {"nil"}]
    ELSE [fails : {"none", "Login", "GetTorrentInfo", "AddTorrent"},
          write1 : BOOLEAN, write2 : BOOLEAN, deleteFilesOnRemoval : {"nil"}]

\* The remote call that failed in a Reconcile: the one its input names, when
\* the Reconcile came to make it.
Failed(in, logins, remote) ==
    IF in.fails = "Login"
    THEN IF logins = 1 THEN "Login" ELSE "none"
    ELSE IF \E i \in 1..Len(remote) : remote[i].call = in.fails
    THEN in.fails
    ELSE "none"

\* What GetTorrentInfo answered in a Reconcile, when it was called and did
\* not fail: the torrent the engine holds under the hash, or none.
Answer(cfgs, eng, selected, remote, failed) ==
    IF /\ remote # <<>>
       /\ remote[1].call = "GetTorrentInfo"
       /\ failed # "GetTorrentInfo"
    THEN [asked |-> TRUE,
          info |-> IF Holds(eng, cfgs[selected].url, remote[1].hash)
                   THEN eng[cfgs[selected].url] ELSE NoObject]
    ELSE [asked |-> FALSE, info |-> NoObject]

\* An engine that is not reachable answers no call: a Login made has failed,
\* and the first call made to the engine has failed.
Unanswered(logins, err, remote, failed) ==
    /\ logins = 1 => err # <<>>
    /\ remote # <<>> => failed = remote[1].call

\* One Reconcile of the Torrent with the inputs given.
\* spec.deleteFilesOnRemoval as a Reconcile read it: handleDeletion reads it
\* on its way to DeleteTorrent, no other branch does.
FlagRead(deleteFilesOnRemoval, remote) ==
    IF \E i \in 1..Len(remote) : remote[i].call = "DeleteTorrent"
    THEN deleteFilesOnRemoval ELSE "nil"

TorrentReconcile(in) ==
    /\ FreeHandles(entries, call) # {}
    /\ \E out \in {ReconcileTorrent(torrent, tccs, secrets, engine,
                                    clients, entries, timers, in)} :
          /\ ~reachable => Unanswered(out.resolution.logins,
                                       out.resolution.err, out.remote,
                                       Failed(in, out.resolution.logins,
                                              out.remote))
          /\ SetPool(out.pool)
          /\ torrent' = out.torrent
          /\ engine' = out.engine
          /\ last' = [op |-> "Reconcile", kind |-> "Torrent",
                      pre |-> torrent, obj |-> out.obj,
                      result |-> out.result, resolution |-> out.resolution,
                      remote |-> out.remote, set |-> out.set,
                      failed |-> Failed(in, out.resolution.logins,
                                        out.remote),
                      answer |-> Answer(tccs, engine,
                                        out.resolution.selected, out.remote,
                                        Failed(in, out.resolution.logins,
                                               out.remote)),
                      deleteFilesOnRemoval |->
                          FlagRead(in.deleteFilesOnRemoval, out.remote),
                      writes |-> out.writes]
    /\ UNCHANGED <<tccs, secrets, server, owned, objects,
                   reachable>>

\* One Reconcile of the Torrent.
TorrentReconciler ==
    \E in \in TorrentInputs(torrent) : TorrentReconcile(in)

TCCInputs(tcc) ==
    IF ~tcc.exists
    THEN [fails : {"none"}, write1 : {TRUE}, checkInterval : {""}]
    ELSE [fails : {"none", "Login", "Ping"}, write1 : BOOLEAN,
          checkInterval : CheckIntervals]

\* One Reconcile of a TorrentClientConfiguration with the inputs given.
TCCReconcile(name, in) ==
    /\ FreeHandles(entries, call) # {}
    /\ \E out \in {ReconcileTCC(tccs[name], secrets, clients, entries,
                                timers, in)} :
          /\ ~reachable => Unanswered(out.session.logins, out.session.err,
                                       out.remote,
                                       Failed(in, out.session.logins,
                                              out.remote))
          /\ SetPool(out.pool)
          /\ tccs' = [tccs EXCEPT ![name] = out.tcc]
          /\ last' = [op |-> "Reconcile", kind |-> "TCC", name |-> name,
                      pre |-> tccs[name], obj |-> out.obj,
                      checkInterval |-> in.checkInterval,
                      result |-> out.result, session |-> out.session,
                      remote |-> out.remote, set |-> out.set,
                      failed |-> Failed(in, out.session.logins,
                                        out.remote)]
    /\ UNCHANGED <<torrent, secrets, engine, server, owned, objects,
                   reachable>>

\* One Reconcile of a TorrentClientConfiguration.
TorrentClientConfigurationReconciler(name) ==
    \E in \in TCCInputs(tccs[name]) : TCCReconcile(name, in)

\* The password drawn matters when the generated secret is written: the
\* first draw is GeneratedPassword, a draw for a secret that exists is any.
ServerInputs(ts, secs) ==
    IF ~ts.exists
    THEN [failAt : {"none"}, write1 : {TRUE}, readyReplicas : {0},
          password : {GeneratedPassword}]
    ELSE IF ts.deleting
    THEN [failAt : {"none"}, write1 : BOOLEAN, readyReplicas : {0},
          password : {GeneratedPassword}]
    ELSE [failAt : EnsureSteps \cup {"none"}, write1 : BOOLEAN,
          readyReplicas : {0, 1}, password : {GeneratedPassword}]
         \cup
         [failAt : {"GetSecret"}, write1 : BOOLEAN, readyReplicas : {0, 1},
          password : IF ts.credentialsSecret = "" /\ secs[GeneratedSecret].exists
                     THEN GeneratedPasswords ELSE {GeneratedPassword}]

\* One Reconcile of the TorrentServer.
TorrentServerReconciler ==
    \E in \in ServerInputs(server, secrets) :
       \E out \in {ReconcileServer(server,
                        Dependents(owned, objects, secrets, tccs), in)} :
          /\ server' = out.server
          /\ owned' = out.owned
          /\ objects' = out.objects
          /\ secrets' = out.secrets
          /\ tccs' = out.tccs
          /\ last' = [op |-> "Reconcile", kind |-> "TorrentServer",
                      pre |-> server, obj |-> out.obj, result |-> out.result,
                      set |-> out.set, steps |-> out.steps,
                      failed |-> out.failed]
          /\ UNCHANGED <<clients, entries, timers, call, torrent, engine, reachable>>

\* The user asks for the Torrent to be deleted: the store marks it, or drops
\* it at once when it carries no finalizer.
RequestDeletion ==
    /\ torrent.exists
    /\ ~torrent.deleting
    /\ torrent' = IF torrent.finalizer
                  THEN [torrent EXCEPT !.deleting = TRUE]
                  ELSE NoObject
    /\ last' = Nothing
    /\ UNCHANGED <<clients, entries, timers, call,
                   tccs, secrets, engine, server, owned, objects,
                   reachable>>

\* The user asks for the TorrentServer to be deleted in the foreground: the
\* store marks it and keeps it while its dependents exist.
RequestServerDeletion ==
    /\ server.exists
    /\ ~server.deleting
    /\ server' = [server EXCEPT !.deleting = TRUE]
    /\ last' = Nothing
    /\ UNCHANGED <<clients, entries, timers, call,
                   torrent, tccs, secrets, engine, owned, objects,
                   reachable>>

\* The user replaces or deletes the credentials secret.
EditSecret(secret) ==
    /\ secrets["creds"] = GoodSecret
    /\ secret # GoodSecret
    /\ secrets' = [secrets EXCEPT !["creds"] = secret]
    /\ last' = Nothing
    /\ UNCHANGED <<clients, entries, timers, call,
                   torrent, tccs, engine, server, owned, objects,
                   reachable>>

\* The engine finishes the download of the torrent it holds.
EngineProgress(url) ==
    /\ engine[url].exists
    /\ engine[url].state = "downloading"
    /\ engine' = [engine EXCEPT ![url] =
                     TorrentInfo(engine[url].hash, "uploading", 0)]
    /\ last' = Nothing
    /\ UNCHANGED <<clients, entries, timers, call,
                   torrent, tccs, secrets, server, owned, objects,
                   reachable>>

\* The namespaces considered: a Torrent with the configurations the user
\* wrote, or a Torrent with a TorrentServer that writes the configuration.
Scenarios ==
    [torrent : {NewTorrent(MagnetWithHash, ref) : ref \in {None, 1}},
     configs : SUBSET ConfigNames, server : {NoObject}]
    \cup
    [torrent : {NewTorrent(MagnetWithoutHash, None)},
     configs : {{1}}, server : {NoObject}]
    \cup
    [torrent : {NoObject}, configs : {{}},
     server : {NewServer(""), NewServer("creds")}]

\* The controllers start with an empty pool, the engines reachable and the
\* secret the user wrote in place.  Spec covers a window shorter than the
\* pool's TTL: the timers armed in it do not come due (PoolSpec is where
\* they do).
InitFrom(scenarios) ==
    /\ clients = <<>>
    /\ entries = <<>>
    /\ timers = {}
    /\ call = [c \in Callers |-> IdleCall]
    /\ last = Nothing
    /\ engine = [url \in EngineURLs |-> NoObject]
    /\ owned = {}
    /\ reachable = TRUE
    /\ secrets = [n \in SecretNames |->
                     IF n = "creds" THEN GoodSecret ELSE NoObject]
    /\ \E sc \in scenarios :
          /\ torrent = sc.torrent
          /\ tccs = [n \in ConfigNames |->
                        IF n \in sc.configs THEN NewTCC(ExternalURL, "creds")
                        ELSE NoObject]
          /\ server = sc.server
          /\ objects = [n \in ObjectNames |->
                           IF n = DownloadPVC /\ sc.server.exists
                           THEN UserPVC ELSE NoObject]

Init == InitFrom(Scenarios)

Next ==
    \/ TorrentReconciler
    \/ \E name \in ConfigNames : TorrentClientConfigurationReconciler(name)
    \/ TorrentServerReconciler
    \/ RequestDeletion
    \/ RequestServerDeletion
    \/ \E secret \in UserSecrets : EditSecret(secret)
    \/ \E url \in EngineURLs : EngineProgress(url)

Spec == Init /\ [][Next]_vars

\* ------------------------------------------------- controllers: liveness

\* The engines go down for good.
EngineDown ==
    /\ reachable
    /\ reachable' = FALSE
    /\ last' = Nothing
    /\ UNCHANGED <<clients, entries, timers, call,
                   torrent, tccs, secrets, engine, server, owned, objects>>

\* A Torrent in a namespace with no, one or two configurations, the secret
\* in place.
LiveScenarios ==
    [torrent : {NewTorrent(MagnetWithHash, None)},
     configs : {{}, {1}, {1, 2}}, server : {NoObject}]

LiveInit == InitFrom(LiveScenarios)

\* The inputs of the reconciles, with the fields of the objects that do not
\* bear on the outcome held fixed.
LiveTorrentInputs ==
    {in \in TorrentInputs(torrent) : in.deleteFilesOnRemoval = "nil"}

LiveTCCInputs(name) ==
    {in \in TCCInputs(tccs[name]) : in.checkInterval = ""}

LiveTorrentReconciler ==
    \E in \in LiveTorrentInputs : TorrentReconcile(in)

LiveTCCReconciler(name) ==
    /\ tccs[name].exists
    /\ \E in \in LiveTCCInputs(name) : TCCReconcile(name, in)

LiveNext ==
    \/ LiveTorrentReconciler
    \/ \E name \in ConfigNames : LiveTCCReconciler(name)
    \/ RequestDeletion
    \/ EngineDown

\* A Reconcile whose store writes succeed.
TorrentReconcilerSaved ==
    \E in \in LiveTorrentInputs :
       in.write1 /\ in.write2 /\ TorrentReconcile(in)

TCCReconcilerSaved(name) ==
    /\ tccs[name].exists
    /\ \E in \in LiveTCCInputs(name) : in.write1 /\ TCCReconcile(name, in)

\* Every Reconcile ends in a re-queue (RequeueAfter, or an error that the
\* work queue retries), so each reconciler runs again and again; and the
\* store, which is not the engine, does not refuse a write for ever.
LiveSpec ==
    /\ LiveInit
    /\ [][LiveNext]_vars
    /\ WF_vars(TorrentReconcilerSaved)
    /\ \A name \in ConfigNames : WF_vars(TCCReconcilerSaved(name))

\* ------------------------------------------------------------ config-init

\* strings.TrimSpace.
IsSpace(c) == c \in {" ", "\n", "\t"}

TrimSpace(str) ==
    LET keep == {i \in 1..Len(str) : ~IsSpace(str[i])}
    IN IF keep = {} THEN <<>>
       ELSE SubSeq(str, CHOOSE i \in keep : \A j \in keep : i <= j,
                   CHOOSE i \in keep : \A j \in keep : j <= i)

\* The salts rand.Read may give HashPassword.
Salts == {"s1", "s2"}

\* base64 and PBKDF2-HMAC-SHA512 are functions of their arguments that give
\* different results for different arguments.
Base64(bytes) == <<"base64", bytes>>
Pbkdf2(password, salt) == <<"pbkdf2-sha512", password, salt>>

\* qbittorrent.HashPassword, for the salt drawn.
HashPassword(password, salt) ==
    <<"@ByteArray(", Base64(salt), ":", Base64(Pbkdf2(password, salt)), ")">>

\* A file, by its content.
File(content) == [exists |-> TRUE, content |-> content]

\* What Run writes for a username and a hashed password.
Content(username, hashedPassword) ==
    <<"[Preferences]\nWebUI\\Username=", username,
      "\nWebUI\\Password_PBKDF2=\"", hashedPassword, "\"\n">>

\* The calls of Run after the credentials are read that may fail.
RunSteps == {"HashPassword", "MkdirAll", "WriteFile"}

\* A Run that writes the config file whether or not one exists.
RunOverwriting(config, credentials, salt, fails) ==
    LET username == TrimSpace(Lookup(credentials, "username"))
        password == TrimSpace(Lookup(credentials, "password"))
    IN IF "username" \notin DOMAIN credentials
       THEN [config |-> config, err |-> <<"failed to read username: ", "ENOENT">>]
       ELSE IF "password" \notin DOMAIN credentials
       THEN [config |-> config, err |-> <<"failed to read password: ", "ENOENT">>]
       ELSE [config |-> File(Content(username, HashPassword(password, salt))),
             err |-> <<>>]

\* A Run that reads the password before the username.
RunPasswordFirst(config, credentials, salt, fails) ==
    LET username == TrimSpace(Lookup(credentials, "username"))
        password == TrimSpace(Lookup(credentials, "password"))
    IN IF config.exists
       THEN [config |-> config, err |-> <<>>]
       ELSE IF "password" \notin DOMAIN credentials
       THEN [config |-> config, err |-> <<"failed to read password: ", "ENOENT">>]
       ELSE IF "username" \notin DOMAIN credentials
       THEN [config |-> config, err |-> <<"failed to read username: ", "ENOENT">>]
       ELSE [config |-> File(Content(username, HashPassword(password, salt))),
             err |-> <<>>]

\* configinit.Run: the config file it leaves and the error it returns, for
\* the config file it finds and the files of the mounted secret.  A failed
\* os.WriteFile (fails = "WriteFile") has not created the file; one that
\* fails after creating it (fails = "Write") leaves it empty.
Run(config, credentials, salt, fails) ==
    LET username == TrimSpace(Lookup(credentials, "username"))
        password == TrimSpace(Lookup(credentials, "password"))
    IN IF config.exists
       THEN [config |-> config, err |-> <<>>]
       ELSE IF "username" \notin DOMAIN credentials
       THEN [config |-> config, err |-> <<"failed to read username: ", "ENOENT">>]
       ELSE IF "password" \notin DOMAIN credentials
       THEN [config |-> config, err |-> <<"failed to read password: ", "ENOENT">>]
       ELSE IF fails = "HashPassword"
       THEN [config |-> config, err |-> <<"failed to hash password: ", "rand">>]
       ELSE IF fails = "MkdirAll"
       THEN [config |-> config,
             err |-> <<"failed to create config directory: ", "EACCES">>]
       ELSE IF fails = "WriteFile"
       THEN [config |-> config,
             err |-> <<"failed to write config file: ", "EACCES">>]
       ELSE IF fails = "Write"
       THEN [config |-> File(<<>>),
             err |-> <<"failed to write config file: ", "ENOSPC">>]
       ELSE [config |-> File(Content(username, HashPassword(password, salt))),
             err |-> <<>>]

\* The secrets a pod may find mounted at /credentials: each key present or
\* not, the values with and without white space around them, or empty.
Mounted ==
    {SecretWith([k \in keys |-> IF k = "username" THEN username ELSE password]) :
        keys \in SUBSET {"username", "password"},
        username \in {GeneratedUsername, <<" ", "a", "\n">>},
        password \in {GeneratedPassword, <<"g", "\n">>, <<>>}}

\* The config file qBittorrent left on the volume at an earlier start.
ExistingContent == <<"[Preferences]\nWebUI\\Username=", <<"o", "l", "d">>, "\n">>

\* The pod of a TorrentServer starts on a config PVC that is new or holds a
\* config file already, with the credentials secret mounted.
ConfigInit ==
    /\ clients = <<>>
    /\ entries = <<>>
    /\ timers = {}
    /\ call = [c \in Callers |-> IdleCall]
    /\ last = Nothing
    /\ torrent = NoObject
    /\ tccs = [n \in ConfigNames |-> NoObject]
    /\ \E secret \in Mounted :
          secrets = [n \in SecretNames |->
                        IF n = GeneratedSecret THEN secret ELSE NoObject]
    /\ engine = [url \in EngineURLs |-> NoObject]
    /\ server = NewServer("")
    /\ owned = {CredentialsSecretObject, ConfigPVC}
    /\ \E config \in {NoObject, File(ExistingContent)} :
          objects = [n \in ObjectNames |->
                        IF n = ConfigPVC
                        THEN [exists |-> TRUE, spec |-> [size |-> "1Gi"],
                              config |-> config]
                        ELSE NoObject]
    /\ reachable = TRUE

\* One start of the init container: configinit.Run.
ConfigInitRun ==
    \E salt \in Salts, fails \in RunSteps \cup {"Write", "none"} :
       \E out \in {Run(objects[ConfigPVC].config,
                       secrets[GeneratedSecret].data, salt, fails)} :
          /\ objects' = [objects EXCEPT ![ConfigPVC].config = out.config]
          /\ last' = [op |-> "Run", pre |-> objects[ConfigPVC].config,
                      credentials |-> secrets[GeneratedSecret].data,
                      salt |-> salt, fails |-> fails, err |-> out.err]
          /\ UNCHANGED <<clients, entries, timers, call, torrent, tccs,
                         secrets, engine, server, owned, reachable>>

\* The secret changes between two starts of the pod.
MountSecret(secret) ==
    /\ secrets[GeneratedSecret] # secret
    /\ secrets' = [secrets EXCEPT ![GeneratedSecret] = secret]
    /\ last' = Nothing
    /\ UNCHANGED <<clients, entries, timers, call, torrent, tccs, engine,
                   server, owned, objects, reachable>>

ConfigNext ==
    \/ ConfigInitRun
    \/ \E secret \in Mounted : MountSecret(secret)

ConfigSpec == ConfigInit /\ [][ConfigNext]_vars

\* ------------------------------------------------- GetTorrentHash alone

\* The longest run of characters between the marker and the end of a link.
MaxBody == 2

SeqsUpTo(S, n) == UNION {[1..k -> S] : k \in 0..n}

\* The magnet links GetTorrentHash is applied to: something or nothing in
\* front, the marker whole, cut short or absent, a body of hash characters
\* and "&", and a tail that is empty, a parameter or a second marker.
Descriptors ==
    {front \o marker \o body \o tail :
        front \in {<<>>, <<"x">>, <<"&">>},
        marker \in {Btih, <<"b", "t", "i", "h">>, <<>>},
        body \in SeqsUpTo({"A", "B", "&"}, MaxBody),
        tail \in {<<>>, <<"&", "d">>, Btih \o <<"C">>}}

HashInit ==
    /\ clients = <<>>
    /\ entries = <<>>
    /\ timers = {}
    /\ call = [c \in Callers |-> IdleCall]
    /\ last = Nothing
    /\ \E magnetURI \in Descriptors : torrent = NewTorrent(magnetURI, None)
    /\ tccs = [n \in ConfigNames |-> NoObject]
    /\ secrets = [n \in SecretNames |-> NoObject]
    /\ engine = [url \in EngineURLs |-> NoObject]
    /\ server = NoObject
    /\ owned = {}
    /\ objects = [n \in ObjectNames |-> NoObject]
    /\ reachable = TRUE

\* One call of GetTorrentHash on the link of the Torrent.
ExtractHash ==
    /\ last.op = "none"
    /\ last' = [op |-> "GetTorrentHash", magnetURI |-> torrent.magnetURI,
                out |-> GetTorrentHash(torrent.magnetURI)]
    /\ UNCHANGED <<clients, entries, timers, call>>
    /\ UNCHANGED storeVars

HashNext == ExtractHash

HashSpec == HashInit /\ [][HashNext]_vars

PoolInit ==
    /\ clients = <<>>
    /\ entries = <<>>
    /\ timers = {}
    /\ call = [c \in Callers |-> IdleCall]
    /\ last = Nothing
    /\ torrent = NoObject
    /\ tccs = [n \in ConfigNames |-> NoObject]
    /\ secrets = [n \in SecretNames |-> NoObject]
    /\ engine = [url \in EngineURLs |-> NoObject]
    /\ server = NoObject
    /\ owned = {}
    /\ objects = [n \in ObjectNames |-> NoObject]
    /\ reachable = TRUE

PoolNext ==
    \/ \E c \in Callers, url \in URLs, username \in Usernames, password \in Passwords :
          GetOrCreateProbe(c, url, username, password)
    \/ \E c \in Callers : GetOrCreateHit(c)
    \/ \E c \in Callers, ok \in BOOLEAN : GetOrCreateLogin(c, ok)
    \/ \E c \in Callers : GetOrCreateInsert(c)
    \/ Cleanup
    \/ \E t \in timers : TimerFire(t)
    \/ \E t \in timers : TimerCheck(t)
    \/ \E t \in timers : TimerRemove(t)
    \/ PoolTick

PoolSpec == PoolInit /\ [][PoolNext]_vars

\* -------------------------------------------------- pool: timers alone

\* The pool with nothing but its callers and its timers: no one calls
\* Cleanup or Remove.
TimerNext ==
    \/ \E c \in Callers, url \in URLs, username \in Usernames, password \in Passwords :
          GetOrCreateProbe(c, url, username, password)
    \/ \E c \in Callers : GetOrCreateHit(c)
    \/ \E c \in Callers, ok \in BOOLEAN : GetOrCreateLogin(c, ok)
    \/ \E c \in Callers : GetOrCreateInsert(c)
    \/ \E t \in timers : TimerFire(t)
    \/ \E t \in timers : TimerCheck(t)
    \/ \E t \in timers : TimerRemove(t)
    \/ PoolTick

\* Time passes, and the runtime runs the callback of a timer that has come
\* due (time.AfterFunc) to its end.
TimerSpec ==
    /\ PoolInit
    /\ [][TimerNext]_vars
    /\ WF_vars(PoolTick)
    /\ WF_vars(\E t \in timers : TimerFire(t))
    /\ WF_vars(\E t \in timers : TimerCheck(t))
    /\ WF_vars(\E t \in timers : TimerRemove(t))

\* ------------------------------------------------- pool: keys of triples

\* Usernames and passwords as a Secret may hold them: any bytes, the
\* separator of hashCredentials among them.
KeyUsernames == {<<"a">>, <<"a", "|", "b">>}
KeyPasswords == {<<"c">>, <<"b", "|", "c">>}

\* client.Login(ctx, username, password): the session of the client is the
\* one the engine opened for these credentials at this endpoint.
Login(entry, url, username, password) ==
    [credHash |-> entry.credHash, idle |-> entry.idle,
     login |-> <<url, username, password>>]

\* One GetOrCreate, no other caller in the pool meanwhile: the entry it
\* inserts holds the client it logged in.
KeyGetOrCreate(url, username, password, ok) ==
    /\ FreeHandles(entries, call) # {}
    /\ \E out \in {GetOrCreate(clients, entries, timers, url, username,
                               password, ok)} :
          /\ Cardinality(out.timers) <= MaxTimers
          /\ clients' = out.clients
          /\ timers' = out.timers
          /\ entries' = Collect([h \in DOMAIN out.entries |->
                                    IF h \in DOMAIN entries
                                    THEN [entries[h] EXCEPT
                                              !.idle = out.entries[h].idle]
                                    ELSE Login(out.entries[h], url, username,
                                               password)],
                                out.clients, call, out.timers)
          /\ last' = [op |-> "GetOrCreate", url |-> url,
                      username |-> username, password |-> password,
                      credHash |-> hashCredentials(url, username, password),
                      ret |-> out.client, err |-> out.err,
                      logins |-> out.logins]
    /\ UNCHANGED call
    /\ UNCHANGED storeVars

KeyNext ==
    \/ \E url \in URLs, username \in KeyUsernames, password \in KeyPasswords,
          ok \in BOOLEAN : KeyGetOrCreate(url, username, password, ok)
    \/ Cleanup
    \/ \E t \in timers : TimerFire(t)
    \/ \E t \in timers : TimerCheck(t)
    \/ \E t \in timers : TimerRemove(t)
    \/ PoolTick

KeySpec == PoolInit /\ [][KeyNext]_vars

\* ----------------------------------------------------- controllers: claims

\* The step just taken is a Reconcile of the Torrent.
TorrentReconciled == last.op = "Reconcile" /\ last.kind = "Torrent"

\* ... of a Torrent that exists, with its finalizer and no deletion request.
SteadyReconciled ==
    /\ TorrentReconciled
    /\ last.pre.exists
    /\ ~last.pre.deleting
    /\ last.pre.finalizer

\* ... in which getQBTClient was called.
Resolved == TorrentReconciled /\ last.resolution.called

\* The configurations in the namespace (a Reconcile of the Torrent leaves
\* them as they were).
Existing == {n \in ConfigNames : tccs[n].exists}

\* The list holds a condition Available with status True.
AvailableTrue(conditions) ==
    \E i \in 1..Len(conditions) :
        conditions[i].type = "Available" /\ conditions[i].status = "True"

\* The one condition Degraded/"ClientResolutionFailed" with the message.
OnlyClientResolutionFailed(conditions, message) ==
    conditions = <<[type |-> "Degraded", status |-> "True",
                    reason |-> "ClientResolutionFailed",
                    message |-> message]>>

\* The stored status is the one the reconciler holds, or, when its write
\* failed, the one stored before.
StoredOrNot ==
    /\ torrent.exists
    /\ torrent.status \in {last.obj.status, last.pre.status}

\* C1: when the Torrent names a configuration that exists, getQBTClient
\* selects that configuration, however many others the namespace holds.
C1_ExplicitRefSelected ==
    (/\ Resolved
     /\ last.pre.clientConfigRef # None
     /\ last.pre.clientConfigRef \in Existing)
    => last.resolution.selected = last.pre.clientConfigRef

\* C2: without a reference, getQBTClient fails when the namespace holds no
\* configuration, selects the configuration when it holds exactly one, and
\* fails with a message containing "multiple" when it holds two or more, a
\* message that the Degraded condition of the Torrent then carries.
C2_AutoDiscovery ==
    (Resolved /\ last.pre.clientConfigRef = None) =>
       /\ Cardinality(Existing) = 0 =>
             /\ last.resolution.err # <<>>
             /\ last.resolution.selected = None
       /\ Cardinality(Existing) = 1 =>
             last.resolution.selected \in Existing
       /\ Cardinality(Existing) >= 2 =>
             /\ last.resolution.err # <<>>
             /\ last.resolution.selected = None
             /\ Contains(last.resolution.err, "multiple")
             /\ SteadyReconciled =>
                   /\ Len(last.obj.status.conditions) = 1
                   /\ last.obj.status.conditions[1].type = "Degraded"
                   /\ Contains(last.obj.status.conditions[1].message,
                               "multiple")
                   /\ StoredOrNot

\* Two configurations, no reference: the stored Torrent is Degraded with a
\* message containing "multiple".
C2_Witness ==
    /\ SteadyReconciled
    /\ last.pre.clientConfigRef = None
    /\ Cardinality(Existing) >= 2
    /\ Len(torrent.status.conditions) = 1
    /\ torrent.status.conditions[1].type = "Degraded"
    /\ Contains(torrent.status.conditions[1].message, "multiple")

\* C3: when the Torrent names a configuration that does not exist,
\* getQBTClient fails with the not-found error without listing the namespace,
\* selecting a configuration or calling the pool; in steady state the Torrent
\* then holds the one condition Degraded/"ClientResolutionFailed".
C3_MissingRefNoFallback ==
    (/\ Resolved
     /\ last.pre.clientConfigRef # None
     /\ last.pre.clientConfigRef \notin Existing)
    => /\ last.resolution.err =
             <<"referenced TorrentClientConfiguration ",
               last.pre.clientConfigRef, " not found: ", "not found">>
       /\ ~last.resolution.listed
       /\ last.resolution.selected = None
       /\ last.resolution.poolCalls = 0
       /\ last.remote = <<>>
       /\ SteadyReconciled =>
             /\ OnlyClientResolutionFailed(last.obj.status.conditions,
                                           last.resolution.err)
             /\ StoredOrNot

\* The reference names no configuration while exactly one other exists and
\* is Available, and the stored Torrent holds the one Degraded condition.
C3_Witness ==
    /\ SteadyReconciled
    /\ last.pre.clientConfigRef # None
    /\ last.pre.clientConfigRef \notin Existing
    /\ Cardinality(Existing) = 1
    /\ \A n \in Existing : AvailableTrue(tccs[n].conditions)
    /\ OnlyClientResolutionFailed(torrent.status.conditions,
                                  last.resolution.err)

\* C4: when the configuration that the reference names, or the only one in
\* the namespace when there is no reference, has no Available condition with
\* status True, getQBTClient fails without calling the pool and the
\* reconciler calls no engine; in steady state the Torrent then holds
\* Degraded/"ClientResolutionFailed".
C4_UnavailableConfigFails ==
    (/\ Resolved
     /\ \E n \in Existing :
           /\ ~AvailableTrue(tccs[n].conditions)
           /\ \/ last.pre.clientConfigRef = n
              \/ last.pre.clientConfigRef = None /\ Existing = {n})
    => /\ last.resolution.err # <<>>
       /\ last.resolution.poolCalls = 0
       /\ last.resolution.logins = 0
       /\ last.remote = <<>>
       /\ SteadyReconciled =>
             /\ OnlyClientResolutionFailed(last.obj.status.conditions,
                                           last.resolution.err)
             /\ StoredOrNot

\* The only configuration of the namespace is Degraded, and the stored
\* Torrent is Degraded because of it.
C4_Witness ==
    /\ SteadyReconciled
    /\ last.pre.clientConfigRef = None
    /\ \E n \in Existing :
          /\ Existing = {n}
          /\ Len(tccs[n].conditions) = 1
          /\ tccs[n].conditions[1].type = "Degraded"
          /\ OnlyClientResolutionFailed(torrent.status.conditions,
                 <<"TorrentClientConfiguration ", n, " is not available">>)

\* The condition list of the object a Reconcile holds in memory.
ConditionsHeld ==
    IF last.kind = "TCC" THEN last.obj.conditions
    ELSE last.obj.status.conditions

\* The condition lists of the stored objects of the three kinds.
ConditionsStored ==
    {tccs[n].conditions : n \in Existing}
    \cup (IF torrent.exists THEN {torrent.status.conditions} ELSE {})
    \cup (IF server.exists THEN {server.status.conditions} ELSE {})

\* C8: a Reconcile of a Torrent, a TorrentClientConfiguration or a
\* TorrentServer that sets Available or Degraded leaves the object with
\* exactly one condition, of the type set; and no stored object ever holds
\* Available and Degraded together.
C8_OneCondition ==
    /\ (last.op = "Reconcile" /\ last.set # <<>>) =>
          /\ Len(ConditionsHeld) = 1
          /\ ConditionsHeld[1].type = last.set[Len(last.set)]
          /\ ConditionsHeld[1].type \in {"Available", "Degraded"}
    /\ \A conditions \in ConditionsStored :
          /\ Len(conditions) <= 1
          /\ ~(/\ \E i \in 1..Len(conditions) :
                     conditions[i].type = "Available"
               /\ \E i \in 1..Len(conditions) :
                     conditions[i].type = "Degraded")

\* A TorrentServer that was stored Available is set Degraded and stored so,
\* while the configuration it owns is stored Available.
C8_Witness ==
    /\ last.op = "Reconcile"
    /\ last.kind = "TorrentServer"
    /\ last.set = <<"Degraded">>
    /\ Len(last.pre.status.conditions) = 1
    /\ last.pre.status.conditions[1].type = "Available"
    /\ Len(server.status.conditions) = 1
    /\ server.status.conditions[1].type = "Degraded"
    /\ \E n \in Existing : AvailableTrue(tccs[n].conditions)

\* C9: the Reconcile of a Torrent without finalizer and without deletion
\* request adds the finalizer, resolves no configuration, calls neither the
\* pool nor the engine and sets no condition; when its write succeeds the
\* finalizer is stored and the re-queue is after one second, otherwise the
\* stored object is unchanged and the error returned.  In steady state with
\* no configuration in the namespace, the Reconcile leaves the one condition
\* Degraded/"ClientResolutionFailed".
C9_FinalizerFirst ==
    /\ (/\ TorrentReconciled
        /\ last.pre.exists
        /\ ~last.pre.deleting
        /\ ~last.pre.finalizer)
       => /\ last.obj.finalizer
          /\ ~last.resolution.called
          /\ last.resolution.poolCalls = 0
          /\ last.remote = <<>>
          /\ last.set = <<>>
          /\ last.obj.status = last.pre.status
          /\ torrent.exists
          /\ torrent.status = last.pre.status
          /\ last.result.err = <<>> =>
                /\ last.result.requeueAfter = 1
                /\ torrent.finalizer
          /\ last.result.err # <<>> =>
                /\ last.result.requeueAfter = 0
                /\ torrent = last.pre
    /\ (SteadyReconciled /\ Existing = {}) =>
          /\ last.resolution.called
          /\ OnlyClientResolutionFailed(last.obj.status.conditions,
                                        last.resolution.err)
          /\ StoredOrNot

\* The second Reconcile of a Torrent in a namespace without configuration:
\* it had no condition, and the one Degraded condition is now stored.
C9_Witness ==
    /\ SteadyReconciled
    /\ Existing = {}
    /\ last.pre.status.conditions = <<>>
    /\ OnlyClientResolutionFailed(torrent.status.conditions,
                                  last.resolution.err)

\* C10: in steady state, when getQBTClient fails (no configuration selected,
\* configuration not Available, secret not read, or no session obtained),
\* the Torrent holds the one condition Degraded/"ClientResolutionFailed"
\* with the error text as message, the result is a re-queue after 15 seconds
\* without error, no engine call was made and the finalizer is still there.
C10_ResolutionFailureDegrades ==
    (SteadyReconciled /\ last.resolution.err # <<>>) =>
       /\ OnlyClientResolutionFailed(last.obj.status.conditions,
                                     last.resolution.err)
       /\ last.result = [requeueAfter |-> 15, err |-> <<>>]
       /\ last.remote = <<>>
       /\ last.obj.finalizer
       /\ StoredOrNot
       /\ torrent.finalizer
       /\ ~torrent.deleting

\* A Login has failed for the configuration selected, and the stored Torrent
\* carries the login error in its Degraded condition.
C10_Witness ==
    /\ SteadyReconciled
    /\ last.resolution.selected # None
    /\ last.resolution.logins = 1
    /\ last.resolution.err # <<>>
    /\ OnlyClientResolutionFailed(torrent.status.conditions,
                                  last.resolution.err)
    /\ torrent.finalizer

\* ... of a Torrent whose deletion was requested.
DeletionReconciled == TorrentReconciled /\ last.pre.exists /\ last.pre.deleting

\* That Reconcile removed the finalizer and saved the object.
FinalizerRemoved ==
    /\ DeletionReconciled
    /\ ~last.obj.finalizer
    /\ last.result.err = <<>>
    /\ ~torrent.exists

\* The namespace lets getQBTClient resolve the Torrent: one configuration,
\* the one referenced if any, Available, with a secret the engine accepts.
CanResolve(t) ==
    \E n \in ConfigNames :
       /\ Existing = {n}
       /\ t.clientConfigRef \in {None, n}
       /\ AvailableTrue(tccs[n].conditions)
       /\ secrets[tccs[n].credentialsSecret].exists
       /\ {"username", "password"} \subseteq
             DOMAIN secrets[tccs[n].credentialsSecret].data
       /\ secrets[tccs[n].credentialsSecret].data["username"] = <<"a">>
       /\ secrets[tccs[n].credentialsSecret].data["password"] = <<"p">>

\* The engine at some endpoint holds the torrent of the magnet link.
OnEngine(magnetURI) ==
    \E url \in DOMAIN engine :
       /\ engine[url].exists
       /\ engine[url].hash = <<"h">>
       /\ magnetURI = <<"b", "t", "i", "h", ":", "h", "&", "d">>

\* C11: when a deletion Reconcile removes the finalizer of a Torrent whose
\* configuration and session resolve, the torrent the reconciler added to
\* the engine is no longer there: a DeleteTorrent for it has succeeded.
C11_DeleteBeforeFinalizerRemoved ==
    (/\ FinalizerRemoved
     /\ last.resolution.err = <<>>
     /\ CanResolve(last.pre))
    => ~OnEngine(last.pre.magnetURI)

\* ... of a Torrent whose status records a hash.
DeletionWithHash == DeletionReconciled /\ last.pre.status.hash # <<>>

\* The one condition Degraded with the reason and the engine's error.
OnlyDegraded(conditions, reason) ==
    conditions = <<[type |-> "Degraded", status |-> "True",
                    reason |-> reason,
                    message |-> <<"connection refused">>]>>

\* C12: in a deletion Reconcile of a Torrent with a recorded hash, when the
\* client resolves and DeleteTorrent fails, the Torrent holds the one
\* condition Degraded/"FailedToDeleteTorrent", the result is a re-queue after
\* 10 seconds without error, and the finalizer stays on the stored object,
\* which still awaits deletion; so it is at every such Reconcile, the first
\* and the later ones.
C12_DeleteFailureKeepsFinalizer ==
    (/\ DeletionWithHash
     /\ last.resolution.called
     /\ last.resolution.err = <<>>
     /\ last.failed = "DeleteTorrent")
    => /\ Len(last.remote) = 1
       /\ last.remote[1].call = "DeleteTorrent"
       /\ last.remote[1].hash = last.pre.status.hash
       /\ OnlyDegraded(last.obj.status.conditions, "FailedToDeleteTorrent")
       /\ last.result = [requeueAfter |-> 10, err |-> <<>>]
       /\ last.obj.finalizer
       /\ StoredOrNot
       /\ torrent.finalizer
       /\ torrent.deleting

\* DeleteTorrent fails again for a Torrent that the Reconcile before left
\* Degraded/"FailedToDeleteTorrent"; the finalizer is still stored.
C12_Witness ==
    /\ DeletionWithHash
    /\ last.failed = "DeleteTorrent"
    /\ OnlyDegraded(last.pre.status.conditions, "FailedToDeleteTorrent")
    /\ OnlyDegraded(torrent.status.conditions, "FailedToDeleteTorrent")
    /\ torrent.finalizer

\* C13: in a deletion Reconcile of a Torrent with a recorded hash, when
\* getQBTClient fails (configuration or session), no engine call is made and
\* no condition is set; the finalizer is taken off and the object saved in
\* that Reconcile: the object goes away, or, when the save fails, the error
\* is returned and the stored object is as it was.
C13_ResolutionFailureRemovesFinalizer ==
    (/\ DeletionWithHash
     /\ last.resolution.called
     /\ last.resolution.err # <<>>)
    => /\ last.remote = <<>>
       /\ last.set = <<>>
       /\ ~last.obj.finalizer
       /\ last.result.requeueAfter = 0
       /\ last.result.err = <<>> => ~torrent.exists
       /\ last.result.err # <<>> => torrent = last.pre

\* The finalizer went after a failed resolution, and the torrent is still on
\* the engine.
C13_Witness ==
    /\ DeletionWithHash
    /\ last.resolution.called
    /\ last.resolution.err # <<>>
    /\ FinalizerRemoved
    /\ OnEngine(last.pre.magnetURI)

\* C14: once the engines are down for good, a Torrent whose deletion has
\* been requested does not stay: its finalizer is removed and the object
\* goes away, also when the pool holds a session for its configuration.
C14_DeletionNotBlocked ==
    (~reachable /\ torrent.exists /\ torrent.deleting) ~> ~torrent.exists

\* With the engines down and a session still in the pool, the finalizer of a
\* Torrent with a recorded hash went once its configuration was no longer
\* Available.
C14_Witness ==
    /\ ~reachable
    /\ DeletionWithHash
    /\ FinalizerRemoved
    /\ last.resolution.selected # None
    /\ last.resolution.err # <<>>
    /\ DOMAIN clients # {}
    /\ OnEngine(last.pre.magnetURI)

\* The Reconcile just taken settled the remote cleanup: it found no hash
\* recorded or its DeleteTorrent succeeded (confirmed), or its resolution
\* failed (abandoned).
CleanupSettled ==
    /\ DeletionReconciled
    /\ \/ last.pre.status.hash = <<>>
       \/ last.resolution.err # <<>>
       \/ /\ Len(last.remote) = 1
          /\ last.remote[1].call = "DeleteTorrent"
          /\ last.failed = "none"

\* The stored Torrent carries the finalizer.
FinalizerPresent == torrent.exists /\ torrent.finalizer

\* C15 as stated: once a Reconcile of the Torrent has gone through (this
\* one without error, or an earlier one that stored the finalizer), the
\* finalizer is present exactly when the cleanup has not been settled.
C15_FinalizerIff ==
    (/\ TorrentReconciled
     /\ last.pre.exists
     /\ last.pre.finalizer \/ last.result.err = <<>>)
    => (FinalizerPresent <=> ~CleanupSettled)

\* C15, amended: after a Reconcile that returns no error the finalizer is
\* present exactly when the cleanup has not been settled; a Reconcile that
\* returns an error leaves the finalizer as it found it, present also after
\* a DeleteTorrent that succeeded; no Reconcile of a Torrent without
\* deletion request removes the finalizer; and a stored Torrent without
\* finalizer is one that no Reconcile has got further with: no deletion
\* pending, no status.
C15_FinalizerIffSaved ==
    /\ (TorrentReconciled /\ last.pre.exists) =>
          /\ last.result.err = <<>> =>
                (FinalizerPresent <=> ~CleanupSettled)
          /\ last.result.err # <<>> =>
                /\ torrent.exists
                /\ torrent.finalizer = last.pre.finalizer
          /\ (~last.pre.deleting /\ last.pre.finalizer) => FinalizerPresent
          /\ ~CleanupSettled => torrent.exists
    /\ (torrent.exists /\ ~torrent.finalizer) =>
          /\ ~torrent.deleting
          /\ torrent.status.hash = <<>>
          /\ torrent.status.conditions = <<>>

\* DeleteTorrent has succeeded, the save of the object has failed, and the
\* finalizer is still stored.
C15_Witness ==
    /\ DeletionWithHash
    /\ CleanupSettled
    /\ last.resolution.err = <<>>
    /\ last.result.err # <<>>
    /\ FinalizerPresent
    /\ ~OnEngine(torrent.magnetURI)

\* GetTorrentInfo was called in the steady-state Reconcile just taken and
\* answered that the engine holds no torrent under the hash.
AnsweredNone ==
    /\ SteadyReconciled
    /\ last.answer.asked
    /\ ~last.answer.info.exists

\* The Reconcile made GetTorrentInfo and then one AddTorrent with the magnet
\* link of the Torrent, and no other call.
OneAddTorrent ==
    /\ Len(last.remote) = 2
    /\ last.remote[1].call = "GetTorrentInfo"
    /\ last.remote[2] = [call |-> "AddTorrent",
                         magnetURI |-> last.pre.magnetURI]

\* The one condition Available with the reason.
OnlyAvailable(conditions, reason) ==
    /\ Len(conditions) = 1
    /\ conditions[1].type = "Available"
    /\ conditions[1].status = "True"
    /\ conditions[1].reason = reason

\* What C16 says of the Reconcile, with the reason of a successful add.
AddOutcome(reason) ==
    AnsweredNone =>
       /\ OneAddTorrent
       /\ last.failed = "none" =>
             /\ OnlyAvailable(last.obj.status.conditions, reason)
             /\ last.result = [requeueAfter |-> 5, err |-> <<>>]
             /\ OnEngine(last.pre.magnetURI)
       /\ last.failed # "none" =>
             /\ last.failed = "AddTorrent"
             /\ OnlyDegraded(last.obj.status.conditions, "FailedToAddTorrent")
             /\ last.result = [requeueAfter |-> 10, err |-> <<>>]
             /\ ~OnEngine(last.pre.magnetURI)
       /\ StoredOrNot

\* C16 as stated: when the engine holds no torrent under the hash, the
\* Reconcile makes one AddTorrent call with the magnet link; when it
\* succeeds the one condition is Available with the reason "Created", when
\* it fails the one condition is Degraded/"FailedToAddTorrent" and the
\* result is a re-queue after 10 seconds without error.
C16_AddWithReasonCreated == AddOutcome("Created")

\* C16, amended: the same, with the reason "TorrentAdded" and a re-queue
\* after 5 seconds for the successful add.
C16_AddWithReasonTorrentAdded == AddOutcome("TorrentAdded")

\* The torrent was added, and the stored Torrent is Available/"TorrentAdded"
\* after having been Degraded/"FailedToAddTorrent".
C16_Witness ==
    /\ AnsweredNone
    /\ last.failed = "none"
    /\ OnlyDegraded(last.pre.status.conditions, "FailedToAddTorrent")
    /\ OnlyAvailable(torrent.status.conditions, "TorrentAdded")
    /\ OnEngine(torrent.magnetURI)

\* GetTorrentInfo was called in the steady-state Reconcile just taken and
\* answered with the torrent the engine holds.
AnsweredTorrent ==
    /\ SteadyReconciled
    /\ last.answer.asked
    /\ last.answer.info.exists

\* The eight observed fields of a status, and of what the engine reports.
Observed(r) ==
    <<r.hash, r.name, r.state, r.totalSize, r.contentPath, r.addedOn,
      r.timeActive, r.amountLeft>>

\* What C17 says of the Reconcile, with the reason of the condition set.
FoundOutcome(reason) ==
    AnsweredTorrent =>
       /\ Len(last.remote) = 1
       /\ Observed(last.obj.status) = Observed(last.answer.info)
       /\ last.result.err = <<>> =>
             /\ OnlyAvailable(last.obj.status.conditions, reason)
             /\ last.result.requeueAfter = 15
             /\ torrent.exists
             /\ Observed(torrent.status) = Observed(last.answer.info)
             /\ torrent.status.conditions \in
                   {last.obj.status.conditions, last.pre.status.conditions}
       /\ last.result.err # <<>> =>
             /\ last.result.requeueAfter = 0
             /\ last.set = <<>>
             /\ torrent = last.pre
             /\ Observed(last.pre.status) # Observed(last.answer.info)

\* C17 as stated: when the engine returns the torrent, after the Reconcile
\* the eight observed fields stored are those of the engine's torrent, the
\* one condition is Available with the reason "Active", and the result is a
\* re-queue after 15 seconds.
C17_SyncWithReasonActive == FoundOutcome("Active")

\* C17, amended: the same with the reason "TorrentActive"; and when a field
\* has changed and the write of the fields fails, the error is returned and
\* nothing is stored.
C17_SyncWithReasonTorrentActive == FoundOutcome("TorrentActive")

\* The download has finished on the engine, and the stored status has
\* followed it, Available/"TorrentActive".
C17_Witness ==
    /\ AnsweredTorrent
    /\ last.pre.status.state = "downloading"
    /\ last.pre.status.amountLeft = 1
    /\ torrent.status.state = "uploading"
    /\ torrent.status.amountLeft = 0
    /\ torrent.status.hash = <<"h">>
    /\ OnlyAvailable(torrent.status.conditions, "TorrentActive")

\* The magnet link holds "btih:" nowhere, or holds nothing after it.
NoHashIn(magnetURI) ==
    \A i \in 1..Len(magnetURI) :
       \/ i + 5 > Len(magnetURI)
       \/ <<magnetURI[i], magnetURI[i + 1], magnetURI[i + 2],
            magnetURI[i + 3], magnetURI[i + 4]>> # <<"b", "t", "i", "h", ":">>

\* C18: a steady-state Reconcile of a Torrent whose magnet link yields no
\* hash, with the client resolved, returns an error and no re-queue delay,
\* calls neither GetTorrentInfo nor AddTorrent nor DeleteTorrent, sets no
\* condition and leaves the stored Torrent, its conditions and observed
\* fields, as it was.
C18_NoHashIsAnError ==
    (/\ SteadyReconciled
     /\ NoHashIn(last.pre.magnetURI)
     /\ last.resolution.called
     /\ last.resolution.err = <<>>)
    => /\ last.result.err # <<>>
       /\ last.result.requeueAfter = 0
       /\ last.remote = <<>>
       /\ ~last.answer.asked
       /\ last.set = <<>>
       /\ last.obj.status.conditions = last.pre.status.conditions
       /\ Observed(last.obj.status) = Observed(last.pre.status)
       /\ torrent = last.pre
       /\ \A url \in DOMAIN engine : ~engine[url].exists

\* Such a Reconcile, with a session of the pool in hand.
C18_Witness ==
    /\ SteadyReconciled
    /\ last.pre.magnetURI = <<"x">>
    /\ last.resolution.called
    /\ last.resolution.err = <<>>
    /\ last.resolution.selected = 1
    /\ last.result.err # <<>>
    /\ DOMAIN clients # {}

\* The step just taken is a Reconcile of a TorrentClientConfiguration that
\* exists.
TCCReconciled ==
    last.op = "Reconcile" /\ last.kind = "TCC" /\ last.pre.exists

\* The secret that configuration names, as the Reconcile read it.
SecretRead == secrets[last.pre.credentialsSecret]

SecretValid ==
    /\ SecretRead.exists
    /\ "username" \in DOMAIN SecretRead.data
    /\ "password" \in DOMAIN SecretRead.data

\* The re-queue delay that spec.checkInterval asks for.
ConfiguredInterval == IF last.checkInterval = "30s" THEN 30 ELSE 60

\* The Reconcile went through the failure branch with the reason: one
\* condition Degraded, not connected, checked, a re-queue after the interval
\* without error, and that status stored unless its write failed.
DegradedBranch(reason) ==
    /\ Len(last.obj.conditions) = 1
    /\ last.obj.conditions[1].type = "Degraded"
    /\ last.obj.conditions[1].status = "True"
    /\ last.obj.conditions[1].reason = reason
    /\ ~last.obj.connected
    /\ last.obj.checked
    /\ last.result = [requeueAfter |-> ConfiguredInterval, err |-> <<>>]
    /\ tccs[last.name] \in {last.obj, last.pre}

\* C19: the Reconcile of a TorrentClientConfiguration stops at the first
\* check that fails, in this order: secret missing ("SecretNotFound"),
\* secret without username or password ("SecretInvalid"), no session from
\* the pool ("ClientCreationFailed"), Ping failed ("HealthCheckFailed").
\* The two secret failures ask the pool for nothing and call no engine;
\* a session failure makes no Ping.  Each failure leaves the configuration
\* Degraded and not connected, and re-queues after the interval, no error.
C19_ChecksInOrder ==
    TCCReconciled =>
       /\ ~SecretRead.exists =>
             /\ DegradedBranch("SecretNotFound")
             /\ last.session = [poolCalls |-> 0, logins |-> 0, err |-> <<>>]
             /\ last.remote = <<>>
       /\ (SecretRead.exists /\ ~SecretValid) =>
             /\ DegradedBranch("SecretInvalid")
             /\ last.session = [poolCalls |-> 0, logins |-> 0, err |-> <<>>]
             /\ last.remote = <<>>
       /\ (SecretValid /\ last.session.err # <<>>) =>
             /\ DegradedBranch("ClientCreationFailed")
             /\ last.session.poolCalls = 1
             /\ last.remote = <<>>
       /\ (SecretValid /\ last.session.err = <<>> /\ last.failed = "Ping") =>
             /\ DegradedBranch("HealthCheckFailed")
             /\ last.session.poolCalls = 1
             /\ last.remote = <<[call |-> "Ping"]>>
       /\ SecretValid => last.session.poolCalls = 1

\* A configuration stored Available and connected fails its Ping with the
\* session of the pool, and is stored Degraded/"HealthCheckFailed".
C19_Witness ==
    /\ TCCReconciled
    /\ AvailableTrue(last.pre.conditions)
    /\ last.pre.connected
    /\ last.session = [poolCalls |-> 1, logins |-> 0, err |-> <<>>]
    /\ last.failed = "Ping"
    /\ tccs[last.name] = last.obj
    /\ DegradedBranch("HealthCheckFailed")

\* The Reconcile read a valid secret, got its session and its Ping answered.
Probed ==
    /\ TCCReconciled
    /\ SecretValid
    /\ last.session.poolCalls = 1
    /\ last.session.err = <<>>
    /\ last.remote = <<[call |-> "Ping"]>>
    /\ last.failed = "none"

\* What that Reconcile holds: the one condition Available/"Connected",
\* connected, checked now.
ConnectedSet ==
    /\ Len(last.obj.conditions) = 1
    /\ last.obj.conditions[1].type = "Available"
    /\ last.obj.conditions[1].status = "True"
    /\ last.obj.conditions[1].reason = "Connected"
    /\ last.obj.connected
    /\ last.obj.checked

C21_NeverRegenerated ==
    [][(/\ server.exists
        /\ server.credentialsSecret = ""
        /\ secrets[GeneratedSecret].exists)
       => /\ secrets'[GeneratedSecret].exists
          /\ secrets'[GeneratedSecret].data["password"]
                = secrets[GeneratedSecret].data["password"]]_vars

\* A Reconcile of a TorrentServer that exists and is not being deleted.
ServerReconciled ==
    /\ last.op = "Reconcile"
    /\ last.kind = "TorrentServer"
    /\ last.pre.exists
    /\ ~last.pre.deleting

StepReason(step) ==
    CASE step = "CredentialsSecret" -> "CredentialsSecretError"
      [] step = "ConfigPVC" -> "ConfigPVCError"
      [] step = "Deployment" -> "DeploymentError"
      [] step = "Service" -> "ServiceError"
      [] step = "ClientConfig" -> "ClientConfigError"

\* C22: a TorrentServer Reconcile calls the ensure steps in the order secret,
\* config PVC, deployment, service, client configuration and stops at the
\* first that fails: the object then carries the one condition Degraded with
\* the step's reason (stored unless the status write fails), the result is
\* success with a re-queue after 10 s; Available/Reconciled is set only by a
\* Reconcile in which all five steps succeeded.
C22_StepsInOrder ==
    ServerReconciled =>
       LET conditions == last.obj.status.conditions
       IN /\ \E n \in 1..Len(EnsureOrder) : last.steps = SubSeq(EnsureOrder, 1, n)
          /\ last.failed # "none" =>
                /\ last.steps[Len(last.steps)] = last.failed
                /\ Len(conditions) = 1
                /\ conditions[1].type = TypeDegraded
                /\ conditions[1].reason = StepReason(last.failed)
                /\ last.result = [requeueAfter |-> 10, err |-> <<>>]
                /\ server.status.conditions
                      \in {conditions, last.pre.status.conditions}
          /\ HasCondition(conditions, TypeAvailable) =>
                /\ last.failed = "none"
                /\ last.steps = EnsureOrder
                /\ FindStatusCondition(conditions, TypeAvailable).reason
                      = "Reconciled"
          /\ (/\ HasCondition(server.status.conditions, TypeAvailable)
              /\ ~HasCondition(last.pre.status.conditions, TypeAvailable))
                => last.failed = "none" /\ last.steps = EnsureOrder

\* The deployment step fails for a TorrentServer that was Available: the
\* secret and the PVC were ensured, the service and the configuration not.
C22_Witness ==
    /\ ServerReconciled
    /\ last.failed = "Deployment"
    /\ last.steps = <<"CredentialsSecret", "ConfigPVC", "Deployment">>
    /\ HasCondition(last.pre.status.conditions, TypeAvailable)
    /\ server.status.conditions = last.obj.status.conditions
    /\ ~HasCondition(server.status.conditions, TypeAvailable)

HasMarker(s) ==
    \E i \in 1..Len(s) :
       i + 4 <= Len(s) /\ <<s[i], s[i + 1], s[i + 2], s[i + 3], s[i + 4]>> = Btih

AfterMarker(s) ==
    LET first == CHOOSE i \in 1..Len(s) :
                    /\ i + 4 <= Len(s)
                    /\ <<s[i], s[i + 1], s[i + 2], s[i + 3], s[i + 4]>> = Btih
                    /\ \A j \in 1..(i - 1) :
                          <<s[j], s[j + 1], s[j + 2], s[j + 3], s[j + 4]>> # Btih
    IN [k \in 1..(Len(s) - first - 4) |-> s[first + 4 + k]]

UpToAmpersand(s) ==
    LET n == Cardinality({k \in 1..Len(s) : \A j \in 1..k : s[j] # "&"})
    IN [k \in 1..n |-> s[k]]

Identifier(s) == UpToAmpersand(AfterMarker(s))

\* C24 as stated: GetTorrentHash fails when the link has no "btih:", and
\* otherwise returns what follows the first "btih:" up to the next "&" or the
\* end of the link.
C24_AgreesWithReference ==
    last.op = "GetTorrentHash" =>
       IF HasMarker(last.magnetURI)
       THEN last.out = [hash |-> Identifier(last.magnetURI), err |-> <<>>]
       ELSE last.out.err # <<>>

\* C24: GetTorrentHash fails when the link has no "btih:" and when the link
\* ends with its first "btih:", and otherwise returns what follows the first
\* "btih:" up to the next "&" or the end of the link.
C24_AgreesUnlessMarkerLast ==
    last.op = "GetTorrentHash" =>
       IF HasMarker(last.magnetURI) /\ AfterMarker(last.magnetURI) # <<>>
       THEN last.out = [hash |-> Identifier(last.magnetURI), err |-> <<>>]
       ELSE last.out.err # <<>> /\ last.out.hash = <<>>

\* The link "xbtih:AB&d" has given "AB".
C24_Witness ==
    /\ last.op = "GetTorrentHash"
    /\ last.magnetURI = <<"x", "b", "t", "i", "h", ":", "A", "B", "&", "d">>
    /\ last.out = [hash |-> <<"A", "B">>, err |-> <<>>]

\* The configuration a Torrent Reconcile selected, if it selected one.
Selected == last.resolution.selected

DeleteCalls ==
    {i \in 1..Len(last.remote) : last.remote[i].call = "DeleteTorrent"}

\* C26: a Torrent Reconcile calls DeleteTorrent at most once, and only when
\* it handles a deletion; the call names status.hash as the Reconcile read it
\* and passes spec.deleteFilesOnRemoval, or true when that is not set.
C26_DeleteTargetsRecordedHash ==
    TorrentReconciled =>
       /\ Cardinality(DeleteCalls) <= 1
       /\ DeleteCalls # {} => last.pre.exists /\ last.pre.deleting
       /\ \A i \in DeleteCalls :
             /\ last.remote[i].hash = last.pre.status.hash
             /\ last.remote[i].hash # <<>>
             /\ last.remote[i].deleteFiles
                   = CASE last.deleteFilesOnRemoval = "nil" -> TRUE
                       [] last.deleteFilesOnRemoval = "true" -> TRUE
                       [] last.deleteFilesOnRemoval = "false" -> FALSE

\* The deletion of a Torrent whose flag is false: DeleteTorrent was called
\* for the recorded hash without the files, and the engine let go of it.
C26_Witness ==
    /\ DeletionReconciled
    /\ last.deleteFilesOnRemoval = "false"
    /\ last.remote = <<[call |-> "DeleteTorrent", hash |-> <<"h">>,
                        deleteFiles |-> FALSE]>>
    /\ last.pre.status.hash = <<"h">>
    /\ last.failed = "none"
    /\ \A url \in EngineURLs : ~engine[url].exists

\* The config file on the volume of the pod.
ConfigFile == objects[ConfigPVC].config

\* C27: a Run that finds the config file returns no error and leaves the
\* file as it is, whatever the mounted secret holds; so a Run that follows a
\* Run that returned no error changes nothing.
C27_ExistingConfigKept ==
    [][last'.op = "Run"
       => /\ ConfigFile.exists
                => /\ last'.err = <<>>
                   /\ ConfigFile' = ConfigFile
          /\ (last.op = "Run" /\ last.err = <<>>)
                => /\ ConfigFile.exists
                   /\ last'.err = <<>>
                   /\ ConfigFile' = ConfigFile]_vars

\* A Run has found the file of an earlier start and a secret without keys.
C27_Witness ==
    /\ last.op = "Run"
    /\ last.pre = File(ExistingContent)
    /\ DOMAIN last.credentials = {}
    /\ last.err = <<>>
    /\ ConfigFile = File(ExistingContent)

\* C28: a Run that finds no config file fails with "failed to read
\* username" when the username file is missing, whether or not the password
\* file is, and with "failed to read password" when only the password file
\* is missing, and creates no file in either case; with both files, and its
\* hashing and its writes succeeding, it writes the config file with the
\* trimmed username and the hash of the trimmed password.
C28_FirstBoot ==
    (last.op = "Run" /\ ~last.pre.exists)
    => /\ "username" \notin DOMAIN last.credentials
             => /\ last.err # <<>>
                /\ last.err[1] = "failed to read username: "
                /\ ~ConfigFile.exists
       /\ ("username" \in DOMAIN last.credentials
           /\ "password" \notin DOMAIN last.credentials)
             => /\ last.err # <<>>
                /\ last.err[1] = "failed to read password: "
                /\ ~ConfigFile.exists
       /\ (DOMAIN last.credentials = {"username", "password"}
           /\ last.fails = "none")
             => /\ last.err = <<>>
                /\ ConfigFile.exists
                /\ ConfigFile.content[2] = TrimSpace(last.credentials["username"])
                /\ ConfigFile.content[4]
                      = HashPassword(TrimSpace(last.credentials["password"]),
                                     last.salt)
                /\ Len(ConfigFile.content) = 5
       /\ last.err # <<>> => (~ConfigFile.exists \/ last.fails = "Write")

\* First boot with " a\n" and "g\n" mounted: the file holds "a" and the hash
\* of "g".
C28_Witness ==
    /\ last.op = "Run"
    /\ ~last.pre.exists
    /\ DOMAIN last.credentials = {"username", "password"}
    /\ last.credentials["username"] = <<" ", "a", "\n">>
    /\ last.credentials["password"] = <<"g", "\n">>
    /\ last.err = <<>>
    /\ ConfigFile = File(Content(<<"a">>, HashPassword(<<"g">>, last.salt)))

\* The GetOrCreate call of the Reconcile just made, if it made one.
SessionOf(l) == IF l.kind = "Torrent" THEN l.resolution ELSE l.session

\* The calls to the engine made with a session in hand.
RemoteOperations == {"Ping", "GetTorrentInfo", "AddTorrent", "DeleteTorrent"}

\* C32: the cache never re-authenticates on its own.  A Reconcile of a
\* configuration or of a work item, whatever call to the engine failed in
\* it, leaves every entry of the pool under its key with the handle it had
\* (none is removed, none replaced); it logs in only for a key the pool does
\* not hold, and then adds that key alone; with the key in the pool it is
\* handed the cached handle with no Login, so a handle whose calls fail is
\* handed out again by the next Reconcile.
C32_NoReauthentication ==
    [][(last'.op = "Reconcile" /\ last'.kind \in {"Torrent", "TCC"})
          => /\ \A k \in DOMAIN clients :
                   k \in DOMAIN clients' /\ clients'[k] = clients[k]
             /\ IF SessionOf(last').logins = 1 /\ SessionOf(last').err = <<>>
                THEN Cardinality(DOMAIN clients' \ DOMAIN clients) = 1
                ELSE DOMAIN clients' = DOMAIN clients
             /\ last'.failed \in RemoteOperations
                   => /\ SessionOf(last').poolCalls = 1
                      /\ SessionOf(last').err = <<>>]_vars

\* A Reconcile was handed the cached handle without a Login and its call to
\* the engine failed; the entry is still in the pool.
C32_Witness ==
    /\ last.op = "Reconcile"
    /\ last.kind \in {"Torrent", "TCC"}
    /\ last.failed \in RemoteOperations
    /\ SessionOf(last).poolCalls = 1
    /\ SessionOf(last).logins = 0
    /\ clients # <<>>

\* The steady-state Reconcile just taken found the engine's torrent, the
\* eight observed fields stored equal to it and Available, status True, the
\* one condition stored.
NothingToUpdate ==
    /\ AnsweredTorrent
    /\ Observed(last.pre.status) = Observed(last.answer.info)
    /\ Len(last.pre.status.conditions) = 1
    /\ last.pre.status.conditions[1].type = TypeAvailable
    /\ last.pre.status.conditions[1].status = "True"

C34_EmptyHashIsAnError ==
    last.op = "GetTorrentHash" =>
       /\ last.out.err = <<>> => last.out.hash # <<>>
       /\ (HasMarker(last.magnetURI) /\ Identifier(last.magnetURI) = <<>>)
             => last.out.err # <<>>

\* No call to the engine failed in the Reconcile just taken.
NoRemoteFailure == last.op = "Reconcile" => last.failed = "none"

\* The configuration and the Torrent are stored Available, and the hash
\* stored is the one in the magnet link.
ConfigurationAvailable ==
    \A n \in Existing : IsAvailable(tccs[n].conditions) /\ tccs[n].connected

TorrentAvailable ==
    /\ torrent.exists
    /\ Len(torrent.status.conditions) = 1
    /\ IsAvailable(torrent.status.conditions)
    /\ torrent.status.hash = GetTorrentHash(torrent.magnetURI).hash

\* C35: with one configuration in the namespace whose secret holds the
\* credentials the engine accepts, a magnet link with a hash, the engine
\* reachable and, from some point on, answering every call, and no deletion
\* requested, the fairly scheduled reconcilers bring the configuration to
\* Available and the Torrent to Available with the hash of its magnet link
\* stored.
C35_Progress ==
    (/\ Cardinality(Existing) = 1
     /\ [](reachable /\ torrent.exists /\ ~torrent.deleting)
     /\ <>[]NoRemoteFailure)
        => <>(ConfigurationAvailable /\ TorrentAvailable)

\* The one configuration is Available and the Torrent, added to the engine
\* and found there, is Available with its hash stored.
C35_Witness ==
    /\ Cardinality(Existing) = 1
    /\ reachable
    /\ ConfigurationAvailable
    /\ TorrentAvailable
    /\ torrent.status.hash = <<"h">>
    /\ ~torrent.deleting
    /\ OnlyAvailable(torrent.status.conditions, "TorrentActive")

\* The one condition of the status is Available, status True.
SoleAvailable(conditions) ==
    /\ Len(conditions) = 1
    /\ conditions[1].type = TypeAvailable
    /\ conditions[1].status = "True"

\* C37: in every status of a TorrentClientConfiguration that is stored,
\* connected is true if and only if the one condition is Available.  Every
\* failure branch of the Reconcile sets Degraded and connected = false, the
\* success branch Available and connected = true; the status set is stored
\* whole or, when its write fails, not at all.  So a configuration that was
\* Available and fails a check is, once that status is stored, not one that
\* getQBTClient accepts.
C37_ConnectedIffAvailable ==
    /\ \A n \in ConfigNames :
          tccs[n].exists =>
             /\ Len(tccs[n].conditions) <= 1
             /\ tccs[n].connected <=> SoleAvailable(tccs[n].conditions)
             /\ tccs[n].connected <=> IsAvailable(tccs[n].conditions)
    /\ (TCCReconciled /\ last.set # <<>>) =>
          /\ last.obj.connected <=> last.set = <<TypeAvailable>>
          /\ last.obj.connected <=> SoleAvailable(last.obj.conditions)
          /\ last.set = <<TypeDegraded>> <=> last.failed # "none"
                                              \/ ~SecretValid
                                              \/ last.session.err # <<>>
          /\ [connected |-> tccs[last.name].connected,
              conditions |-> tccs[last.name].conditions]
                \in {[connected |-> last.obj.connected,
                      conditions |-> last.obj.conditions],
                     [connected |-> last.pre.connected,
                      conditions |-> last.pre.conditions]}

\* A configuration that was stored Available and connected has failed its
\* Ping and is stored Degraded and not connected.
C37_Witness ==
    /\ TCCReconciled
    /\ last.pre.connected
    /\ SoleAvailable(last.pre.conditions)
    /\ last.failed = "Ping"
    /\ ~tccs[last.name].connected
    /\ ~IsAvailable(tccs[last.name].conditions)
    /\ Len(tccs[last.name].conditions) = 1
    /\ tccs[last.name].conditions[1].type = TypeDegraded

\* The conditions of the object as a Reconcile has set them and written, or
\* tried to write them.
ConditionsWritten ==
    IF last.kind = "Torrent"
    THEN IF last.obj.exists THEN last.obj.status.conditions ELSE <<>>
    ELSE IF last.obj.exists THEN last.obj.conditions ELSE <<>>

\* The passwords the credential secrets hold.
SecretPasswords ==
    {secrets[n].data["password"] :
        n \in {m \in SecretNames : secrets[m].exists
                                    /\ "password" \in DOMAIN secrets[m].data}}

\* A message built with %s, %q or %v shows a value when the value is one of
\* its formatted arguments (the pieces of a message are literal strings and
\* argument values, compared by their rendering).
Shows(message, value) ==
    \E k \in 1..Len(message) : ToString(message[k]) = ToString(value)

\* C38: the password read from the credential secret is in the message of
\* no condition that a Reconcile of a TorrentClientConfiguration or of a
\* Torrent writes to the status, a failed Login included.
C38_PasswordNotInStatus ==
    (last.op = "Reconcile" /\ last.kind \in {"Torrent", "TCC"}) =>
       \A i \in 1..Len(ConditionsWritten), password \in SecretPasswords :
          ~Shows(ConditionsWritten[i].message, password)

\* The positions of the AddTorrent calls among the calls of the Reconcile.
AddCalls == {i \in 1..Len(last.remote) : last.remote[i].call = "AddTorrent"}

\* C39: a Torrent Reconcile calls AddTorrent only after its own
\* GetTorrentInfo succeeded and found no torrent under the hash.  When
\* GetTorrentInfo fails, the Reconcile makes no other call to the engine,
\* sets Degraded/"FailedToGetTorrentInfo" as the one condition and writes
\* it, leaves the finalizer on the stored Torrent, and returns a re-queue
\* after 10 seconds with no error.
C39_AddOnlyAfterAbsent ==
    TorrentReconciled =>
       /\ AddCalls # {} =>
             /\ AddCalls = {2}
             /\ last.remote[1].call = "GetTorrentInfo"
             /\ last.remote[1].hash = GetTorrentHash(last.pre.magnetURI).hash
             /\ last.failed # "GetTorrentInfo"
             /\ last.answer.asked
             /\ ~last.answer.info.exists
       /\ last.failed = "GetTorrentInfo" =>
             /\ Len(last.remote) = 1
             /\ last.remote[1].call = "GetTorrentInfo"
             /\ OnlyDegraded(last.obj.status.conditions,
                             "FailedToGetTorrentInfo")
             /\ last.set = <<TypeDegraded>>
             /\ last.writes = <<"Status().Update">>
             /\ last.result = [requeueAfter |-> 10, err |-> <<>>]
             /\ last.obj.finalizer
             /\ torrent.exists
             /\ torrent.finalizer
             /\ torrent.status \in {last.obj.status, last.pre.status}

\* GetTorrentInfo has failed for a Torrent the engine does not hold: no
\* torrent was added, and the Torrent is stored Degraded with its finalizer.
C39_Witness ==
    /\ TorrentReconciled
    /\ last.failed = "GetTorrentInfo"
    /\ ~OnEngine(last.pre.magnetURI)
    /\ torrent.finalizer
    /\ OnlyDegraded(torrent.status.conditions, "FailedToGetTorrentInfo")

\* ------------------------------------------------------------ pool: claims

C6_SweepAtLeastTTL ==
    last.op = "Cleanup" =>
        \A k \in DOMAIN last.clients :
            LET e == last.entries[last.clients[k]]
            IN /\ e.idle >= TTL => k \notin DOMAIN clients
               /\ e.idle < TTL =>
                    /\ k \in DOMAIN clients
                    /\ clients[k] = last.clients[k]
                    /\ entries[clients[k]] = e

\* C6 amended: a sweep removes every entry idle for more than TTL and keeps,
\* untouched, every entry idle for TTL or less; it adds nothing.
C6_SweepMoreThanTTL ==
    last.op = "Cleanup" =>
        /\ DOMAIN clients \subseteq DOMAIN last.clients
        /\ \A k \in DOMAIN last.clients :
            LET e == last.entries[last.clients[k]]
            IN /\ e.idle > TTL => k \notin DOMAIN clients
               /\ e.idle <= TTL =>
                    /\ k \in DOMAIN clients
                    /\ clients[k] = last.clients[k]
                    /\ entries[clients[k]] = e

\* One sweep finds an entry idle for more than TTL and removes it, and finds
\* an entry idle for exactly TTL and keeps it.
C6_Witness ==
    /\ last.op = "Cleanup"
    /\ \E k \in DOMAIN last.clients :
          /\ last.entries[last.clients[k]].idle > TTL
          /\ k \notin DOMAIN clients
    /\ \E k \in DOMAIN last.clients :
          /\ last.entries[last.clients[k]].idle = TTL
          /\ k \in DOMAIN clients

\* C7: a GetOrCreate that found no entry authenticates; when its Login fails
\* it returns the error and no handle, and leaves the pool's map as it was,
\* with no entry for its key unless another caller's insert put one there.
C7_FailedLoginNotCached ==
    /\ (last.op = "GetOrCreate" /\ ~last.present) => last.logins = 1
    /\ (last.op = "GetOrCreate" /\ last.err # <<>>) =>
          /\ ~last.present
          /\ last.ret = NoHandle
          /\ clients = last.before
          /\ \A k \in DOMAIN clients : clients[k] \in DOMAIN entries

\* A Login has failed on a pool that holds no entry for the key, and none is
\* there afterwards.
C7_Witness ==
    /\ last.op = "GetOrCreate"
    /\ last.err # <<>>
    /\ last.logins = 1
    /\ last.credHash \notin DOMAIN clients

\* C29: when the callback of scheduleRemove removes an entry, the entry has
\* at that moment been idle for TTL or longer, whatever GetOrCreate calls
\* run beside the callback.
C29_EvictsOnlyIdle ==
    (last.op = "Remove" /\ last.present) => last.idle >= TTL

\* A GetOrCreate that found no entry for its key has returned a client.
MissReturned ==
    /\ last.op = "GetOrCreate"
    /\ ~last.present
    /\ last.err = <<>>

\* C30 as stated: of the GetOrCreate calls that find no entry for a key one
\* authenticates, and all return the client of the one entry of the key: a
\* call that finds another caller's entry in place when it comes to insert
\* returns that entry's client.
C30_OneLoginOneHandle ==
    MissReturned =>
       /\ clients[last.credHash] = last.ret
       /\ last.credHash \in DOMAIN last.before
             => /\ last.before[last.credHash] = last.ret
                /\ last.logins = 0

\* C30: every GetOrCreate that finds no entry for its key authenticates and,
\* when its Login succeeds, stores and returns a client of its own, which
\* replaces the client another caller stored for the key meanwhile; the map
\* holds one client for the key, the one returned last.
C30_EachMissLogsIn ==
    /\ (last.op = "GetOrCreate" /\ ~last.present) => last.logins = 1
    /\ MissReturned =>
          /\ last.ret # NoHandle
          /\ clients[last.credHash] = last.ret
          /\ \A k \in DOMAIN last.before : last.before[k] # last.ret

\* Two callers found no entry for the same key: both have authenticated, and
\* the second has replaced the client of the first with its own.
C30_Witness ==
    /\ MissReturned
    /\ last.logins = 1
    /\ last.credHash \in DOMAIN last.before
    /\ last.before[last.credHash] # last.ret
    /\ clients[last.credHash] = last.ret

\* C31: distinct (endpoint, username, password) triples map to distinct
\* cache keys, so GetOrCreate never returns a session that was authenticated
\* with another triple than the one passed in: the client a GetOrCreate
\* returns, found under the key of its triple or inserted under it, was
\* logged in with the url, the username and the password of the call.
C31_DistinctTriplesDistinctKeys ==
    (last.op = "GetOrCreate" /\ last.err = <<>>)
       => /\ clients[last.credHash] = last.ret
          /\ entries[last.ret].login
                = <<last.url, last.username, last.password>>

\* No GetOrCreate is under way.
PoolUnused == \A c \in Callers : call[c].pc = "idle"

\* The callback of a timer runs after the moment it was armed for, and it
\* was armed after lastUsed was set: when it looks at the entry, the time
\* since lastUsed is not the TTL to the clock unit.
CallbackRunsLater ==
    \A t \in timers : t.pc = "probed" => entries[t.entry].idle # TTL

====
